---- MODULE Spec2Model ----
(***************************************************************************)
(* Storyboard extraction pipeline of railway-pdf-server                    *)
(* (POST /api/extract-storyboard and its helpers).                         *)
(*                                                                         *)
(* JavaScript values that come from outside the program (oracle replies,   *)
(* locator output) are tagged records [t |-> tag, v |-> payload]; strings  *)
(* are TLA+ strings, read character by character with Len and SubSeq.      *)
(***************************************************************************)
EXTENDS Integers, Sequences, FiniteSets, TLC

(***************************************************************************)
(* Bounds of the model and constants of the program                        *)
(***************************************************************************)
MaxPages == 5
MaxMergePages == 3
MaxCountedPages == 2
MaxImages == 2
MaxTextFrames == 2
MaxSpotFrames == 3
MaxLongSpot == 26
MaxLate == 1
MaxAnalyzing == 2
MaxBatchPages == 9

MAX_RETRIES == 2
CACHE_TTL_MS == 24 * 60 * 60 * 1000
SWEEP_EVERY_MS == 60 * 60 * 1000
BATCH_SIZE == 4
CONCURRENCY == 2
NoGroup == -1

(***************************************************************************)
(* JavaScript values                                                       *)
(***************************************************************************)
Undef == [t |-> "undef"]
Null == [t |-> "null"]
Num(n) == [t |-> "num", v |-> n]
Str(s) == [t |-> "str", v |-> s]
Bool(b) == [t |-> "bool", v |-> b]
Arr(s) == [t |-> "arr", v |-> s]
Obj(r) == [t |-> "obj", v |-> r]

Nullish(x) == x.t \in {"undef", "null"}

Truthy(x) ==
  CASE x.t = "undef" -> FALSE
    [] x.t = "null" -> FALSE
    [] x.t = "bool" -> x.v
    [] x.t = "num" -> x.v # 0
    [] x.t = "str" -> x.v # ""
    [] OTHER -> TRUE

\* a === b; the tags are compared before the payloads
StrictEq(a, b) == a.t = b.t /\ a = b

\* a || b
Or(a, b) == IF Truthy(a) THEN a ELSE b

\* x.k for a value x that is neither null nor undefined
Prop(x, k) ==
  CASE x.t = "obj" -> IF k \in DOMAIN x.v THEN x.v[k] ELSE Undef
    [] x.t \in {"arr", "str"} /\ k = "length" -> Num(Len(x.v))
    [] OTHER -> Undef

\* x[j] for a 0-based index j
Index(x, j) ==
  CASE x.t = "arr" -> IF j < Len(x.v) THEN x.v[j + 1] ELSE Undef
    [] x.t = "str" -> IF j < Len(x.v) THEN Str(SubSeq(x.v, j + 1, j + 1)) ELSE Undef
    [] OTHER -> Undef

\* String.prototype.includes
Includes(s, pat) ==
  \E i \in 1..(Len(s) - Len(pat) + 1) : SubSeq(s, i, i + Len(pat) - 1) = pat

Max(a, b) == IF a >= b THEN a ELSE b
Min(a, b) == IF a <= b THEN a ELSE b

\* The result of a computation that may throw
Ok(v) == [ok |-> TRUE, v |-> v]
Throw(msg) == [ok |-> FALSE, error |-> msg]

(***************************************************************************)
(* Oracle replies.  The text of a reply is                                 *)
(*   [prose] body [prose]            (fence = FALSE)                       *)
(*   [prose] ```json body ``` [prose] (fence = TRUE)                       *)
(* where body is either the text of a JSON value (given as that value) or  *)
(* Garbage, text that JSON.parse rejects.  Prose holds no brackets and no  *)
(* backticks.  A call that rejects is [kind |-> "reject", error |-> msg].  *)
(***************************************************************************)
Garbage == [t |-> "garbage"]
Text(fence, prose, body) == [kind |-> "text", fence |-> fence, prose |-> prose, body |-> body]
Reject(msg) == [kind |-> "reject", error |-> msg]

\* JSON.parse of the text of one body
JsonParse(body) == IF body.t = "garbage" THEN Throw("Unexpected token") ELSE Ok(body)

\* The top-level fields of an object whose value is an array
ArrayFields(body) == {k \in DOMAIN body.v : body.v[k].t = "arr"}

\* text.match(/\[[\s\S]*\]/): the slice from the first "[" to the last "]" of
\* a reply without a fence, parsed.  "none" when the text holds no bracket.
BracketSlice(text) ==
  CASE text.body.t = "arr" -> [hit |-> TRUE, parsed |-> Ok(text.body)]
    [] text.body.t = "obj" /\ Cardinality(ArrayFields(text.body)) = 1 ->
         [hit |-> TRUE, parsed |-> Ok(text.body.v[CHOOSE k \in ArrayFields(text.body) : TRUE])]
    [] text.body.t = "obj" /\ Cardinality(ArrayFields(text.body)) > 1 ->
         [hit |-> TRUE, parsed |-> Throw("Unexpected token")]
    [] OTHER -> [hit |-> FALSE, parsed |-> Throw("no match")]

\* A parse of the whole reply text, without looking for a fence or a bracket
ParseWholeText(text) ==
  IF text.prose \/ text.fence THEN Throw("Unexpected token") ELSE JsonParse(text.body)

\* extractTextBatched, the parse of the reply text: jsonMatch and JSON.parse
ParseBatchedText(text) ==
  IF text.fence THEN JsonParse(text.body)
  ELSE IF BracketSlice(text).hit THEN BracketSlice(text).parsed
  ELSE IF text.prose THEN Throw("Unexpected token")
  ELSE JsonParse(text.body)

\* The fallback of extractTextBatched: an empty result for each page
EmptyResults(pages) ==
  Arr([i \in 1..Len(pages) |->
        Obj([pageNum |-> Num(pages[i]), spotName |-> Null, frames |-> Arr(<<>>)])])

\* extractTextBatched(pages) for the oracle's reply: Ok(array) or Throw
extractTextBatched(pages, reply) ==
  IF reply.kind = "reject" THEN Throw(reply.error)
  ELSE LET parsed == ParseBatchedText(reply)
       IN IF ~parsed.ok THEN Ok(EmptyResults(pages))
          ELSE IF parsed.v.t = "arr" THEN Ok(parsed.v)
          ELSE Ok(Arr(<<parsed.v>>))

\* textResults.find(r => r.pageNum === pageNum): Ok(entry), Ok(Undef) or
\* Throw when a null entry is read before a match
FindPage(results, pageNum) ==
  LET n == Len(results.v)
      hits == {i \in 1..n : ~Nullish(results.v[i])
                            /\ StrictEq(Prop(results.v[i], "pageNum"), Num(pageNum))}
      nulls == {i \in 1..n : Nullish(results.v[i])}
      firstHit == IF hits = {} THEN n + 1 ELSE CHOOSE i \in hits : \A k \in hits : i <= k
      firstNull == IF nulls = {} THEN n + 1 ELSE CHOOSE i \in nulls : \A k \in nulls : i <= k
  IN IF firstNull < firstHit
       THEN Throw("Cannot read properties of null (reading 'pageNum')")
     ELSE IF hits = {} THEN Ok(Undef)
     ELSE Ok(results.v[firstHit])

EmptyDetected == Obj([count |-> Num(0), rectangles |-> Arr(<<>>), images |-> Arr(<<>>)])
DefaultDetected == Obj([count |-> Num(0), images |-> Arr(<<>>)])
DefaultTextData == Obj([frames |-> Arr(<<>>)])

\* rectResults.find(r => r.pageNum === pageNum)?.detected
FindRect(rectResults, pageNum) ==
  LET hits == {i \in 1..Len(rectResults) : rectResults[i].pageNum = pageNum}
  IN IF hits = {} THEN Undef
     ELSE rectResults[CHOOSE i \in hits : \A k \in hits : i <= k].detected

\* The merge of one batch: batch.map(({ pageNum }) => ({ detected, textData, pageNum }))
\* pages: the batch's page numbers; rectResults: [pageNum, detected] per
\* locator call; textResults: the extractor's array
MergeBatch(pages, rectResults, textResults) ==
  LET found == [i \in 1..Len(pages) |-> FindPage(textResults, pages[i])]
      bad == {i \in 1..Len(pages) : ~found[i].ok}
  IN IF bad # {}
       THEN Throw(found[CHOOSE i \in bad : \A k \in bad : i <= k].error)
     ELSE Ok([i \in 1..Len(pages) |->
               [detected |-> Or(FindRect(rectResults, pages[i]), DefaultDetected),
                textData |-> Or(found[i].v, DefaultTextData),
                pageNum |-> pages[i]]])

\* A comparator for descending page numbers
PageOrderDescending(a, b) == b.pageNum - a.pageNum

\* The comparator of allPageResults.sort: (a, b) => a.pageNum - b.pageNum
PageOrder(a, b) == a.pageNum - b.pageNum

\* Array.prototype.sort with PageOrder (stable): x goes after every element
\* that does not compare greater than it
InsertByPage(sorted, x) ==
  LET after == {i \in 1..Len(sorted) : PageOrder(sorted[i], x) <= 0}
      k == IF after = {} THEN 0 ELSE CHOOSE i \in after : \A m \in after : m <= i
  IN SubSeq(sorted, 1, k) \o <<x>> \o SubSeq(sorted, k + 1, Len(sorted))

RECURSIVE SortByPage(_)
SortByPage(s) ==
  IF s = <<>> THEN <<>>
  ELSE InsertByPage(SortByPage(SubSeq(s, 1, Len(s) - 1)), s[Len(s)])

\* (e || {}).k
PropOrEmpty(e, k) == IF Truthy(e) THEN Prop(e, k) ELSE Undef

\* A loop over the positions that have both a text frame and an image
LoopBoundOfPairs(textFrames, images) ==
  LET tl == Prop(textFrames, "length")
      il == Prop(images, "length")
  IN IF tl.t = "num" /\ il.t = "num" THEN Min(tl.v, il.v) ELSE 0

\* Math.max(textFrames.length, images.length) as the bound of the loop: NaN
\* (a length that is no number) runs the loop zero times
LoopBound(textFrames, images) ==
  LET tl == Prop(textFrames, "length")
      il == Prop(images, "length")
  IN IF tl.t = "num" /\ il.t = "num" THEN Max(tl.v, il.v) ELSE 0

\* The frames of one page result, under the spot name current for it
PageFrames(r, currentSpot) ==
  LET textFrames == Or(Prop(r.textData, "frames"), Arr(<<>>))
      images == Or(Prop(r.detected, "images"), Arr(<<>>))
      hasVisibleNumbers == StrictEq(Prop(r.textData, "hasVisibleNumbers"), Bool(TRUE))
  IN [j \in 1..LoopBound(textFrames, images) |->
       [frameNumber |-> Or(PropOrEmpty(Index(textFrames, j - 1), "frameNumber"), Str(ToString(j))),
        hasVisibleNumber |-> hasVisibleNumbers,
        description |-> Or(PropOrEmpty(Index(textFrames, j - 1), "description"), Str("")),
        dialog |-> Or(PropOrEmpty(Index(textFrames, j - 1), "dialog"), Str("")),
        image |-> Or(Index(images, j - 1), Null),
        spotName |-> currentSpot,
        pageNum |-> r.pageNum,
        shotGroup |-> NoGroup]]

\* if (textData.spotName) currentSpot = textData.spotName
NextSpot(r, currentSpot) == Or(Prop(r.textData, "spotName"), currentSpot)

RECURSIVE MergeFrom(_, _, _)
MergeFrom(results, i, currentSpot) ==
  IF i > Len(results) THEN <<>>
  ELSE PageFrames(results[i], NextSpot(results[i], currentSpot))
         \o MergeFrom(results, i + 1, NextSpot(results[i], currentSpot))

\* The loop that builds allFrames from the sorted page results
MergeFrames(results) == MergeFrom(results, 1, Null)

(***************************************************************************)
(* Plain objects used as maps: spotGroups and numberPageMap                *)
(***************************************************************************)
\* Names every plain object inherits from Object.prototype
ObjectPrototypeKeys ==
  {"constructor", "__proto__", "hasOwnProperty", "isPrototypeOf",
   "propertyIsEnumerable", "toLocaleString", "toString", "valueOf",
   "__defineGetter__", "__defineSetter__", "__lookupGetter__", "__lookupSetter__"}

\* The property key a value is converted to
PropertyKey(x) ==
  CASE x.t = "str" -> x.v
    [] x.t = "num" -> ToString(x.v)
    [] x.t = "bool" -> IF x.v THEN "true" ELSE "false"
    [] x.t = "null" -> "null"
    [] x.t = "undef" -> "undefined"
    [] OTHER -> "[object Object]"

IsDigit(c) == c \in {"0", "1", "2", "3", "4", "5", "6", "7", "8", "9"}
DigitVal(c) == CHOOSE d \in 0..9 : ToString(d) = c

RECURSIVE StrToNat(_)
StrToNat(s) ==
  IF Len(s) = 0 THEN 0
  ELSE 10 * StrToNat(SubSeq(s, 1, Len(s) - 1)) + DigitVal(SubSeq(s, Len(s), Len(s)))

\* An integer-like key (a canonical array index); keys of the model are
\* shorter than 10 characters, so below 2^32 - 1
IsArrayIndex(s) ==
  /\ Len(s) \in 1..9
  /\ \A i \in 1..Len(s) : IsDigit(SubSeq(s, i, i))
  /\ (Len(s) > 1 => SubSeq(s, 1, 1) # "0")

\* Position of the spot named key in groups (a sequence of [name, frames]), 0 if none
SpotIndex(groups, key) ==
  IF \E i \in 1..Len(groups) : groups[i].name = key
    THEN CHOOSE i \in 1..Len(groups) : groups[i].name = key
  ELSE 0

\* One turn of the loop "for (const f of allFrames)": Ok(groups) or Throw
AddToSpot(groups, f) ==
  LET key == PropertyKey(Or(f.spotName, Str("Untitled")))
      at == SpotIndex(groups, key)
  IN IF at > 0
       THEN Ok([groups EXCEPT ![at].frames = Append(@, f)])
     ELSE IF key \in ObjectPrototypeKeys
       THEN Throw("spotGroups[spot].push is not a function")
     ELSE Ok(Append(groups, [name |-> key, frames |-> <<f>>]))

RECURSIVE GroupFrom(_, _, _)
GroupFrom(allFrames, i, groups) ==
  IF i > Len(allFrames) THEN Ok(groups)
  ELSE LET r == AddToSpot(groups, allFrames[i])
       IN IF r.ok THEN GroupFrom(allFrames, i + 1, r.v) ELSE r

\* spotGroups, its own keys in insertion order
GroupBySpot(allFrames) == GroupFrom(allFrames, 1, <<>>)

\* Object.entries(spotGroups): integer-like keys first, in ascending numeric
\* order, then the other keys in insertion order
EntryBefore(groups, i, j) ==
  LET a == groups[i].name
      b == groups[j].name
  IN IF IsArrayIndex(a) /\ IsArrayIndex(b) THEN StrToNat(a) < StrToNat(b)
     ELSE IF IsArrayIndex(a) THEN TRUE
     ELSE IF IsArrayIndex(b) THEN FALSE
     ELSE i < j

ObjectEntries(groups) ==
  [k \in 1..Len(groups) |->
     groups[CHOOSE i \in 1..Len(groups) :
              Cardinality({j \in 1..Len(groups) : EntryBefore(groups, j, i)}) = k - 1]]

(***************************************************************************)
(* Renumbering                                                             *)
(***************************************************************************)
AnyWithoutNumbers(frames) == \E i \in 1..Len(frames) : ~frames[i].hasVisibleNumber

\* numberPageMap[key] when frame j is reached: the page of the last earlier
\* frame with that key, or what Object.prototype holds under that name
\* (0: nothing, -1: an inherited object or function)
NumberPageAt(frames, j) ==
  LET key == PropertyKey(frames[j].frameNumber)
      prev == {i \in 1..(j - 1) : PropertyKey(frames[i].frameNumber) = key}
  IN IF key = "__proto__" THEN -1
     ELSE IF prev # {} THEN frames[CHOOSE i \in prev : \A k \in prev : k <= i].pageNum
     ELSE IF key \in ObjectPrototypeKeys THEN -1
     ELSE 0

\* hasDuplicates: numberPageMap[key] && numberPageMap[key] !== f.pageNum
HasDuplicates(frames) ==
  \E j \in 1..Len(frames) :
     NumberPageAt(frames, j) # 0 /\ NumberPageAt(frames, j) # frames[j].pageNum

\* A check that renumbers only when a number is missing
NeedsRenumberForMissing(frames) == AnyWithoutNumbers(frames)

NeedsRenumber(frames) == AnyWithoutNumbers(frames) \/ HasDuplicates(frames)

\* A renumbering that has not happened yet when Pass 2 is called
RenumberLater(frames) == frames

\* A renumbering that counts from 0
RenumberFromZero(frames) ==
  [i \in 1..Len(frames) |-> [frames[i] EXCEPT !.frameNumber = Str(ToString(i - 1))]]

\* frames.forEach((f, idx) => { f.frameNumber = String(idx + 1) })
Renumber(frames) ==
  [i \in 1..Len(frames) |-> [frames[i] EXCEPT !.frameNumber = Str(ToString(i))]]

(***************************************************************************)
(* Pass 2: analyzeGroupings                                                *)
(***************************************************************************)
MAX_PASS2_IMAGES == 24

FramesWithImages(frames) == {i \in 1..Len(frames) : Truthy(frames[i].image)}

\* An analyzeGroupings that calls the oracle whenever two frames have images
Pass2CallsForImages(frames) == Cardinality(FramesWithImages(frames)) >= 2

\* An imageContents without the cap: a block for every frame with an image
ThumbnailsOfAll(frames) ==
  LET framesWithImages == SelectSeq(frames, LAMBDA f : Truthy(f.image))
  IN [i \in 1..Len(framesWithImages) |->
       [type |-> "image", thumbOf |-> framesWithImages[i].image]]

\* imageContents: an image block with the thumbnail of each of the first
\* MAX_PASS2_IMAGES frames that have an image
Thumbnails(frames) ==
  LET framesWithImages == SelectSeq(frames, LAMBDA f : Truthy(f.image))
  IN [i \in 1..Min(Len(framesWithImages), MAX_PASS2_IMAGES) |->
       [type |-> "image", thumbOf |-> framesWithImages[i].image]]

\* Whether analyzeGroupings reaches its oracle call (the client exists)
Pass2Calls(frames) ==
  /\ Cardinality(FramesWithImages(frames)) >= 2
  /\ ~(\A i \in 1..Len(frames) : frames[i].hasVisibleNumber)
  /\ Len(Thumbnails(frames)) >= 2

\* frameNum - 1 as an index of frames; -1 when it is no index
GroupIndex(x) ==
  CASE x.t = "num" -> x.v - 1
    [] x.t = "str" /\ Len(x.v) \in 1..9 /\ (\A i \in 1..Len(x.v) : IsDigit(SubSeq(x.v, i, i)))
         -> StrToNat(x.v) - 1
    [] OTHER -> -1

\* A Pass 2 that keeps as many frames as the oracle named groups
ApplyGroupsDropping(frames, groups) == SubSeq(frames, 1, Min(Len(frames), Len(groups.v)))

\* groups.forEach((group, shotIdx) => group.forEach(frameNum => ...)): the
\* groups before the first entry that is no array are applied, a later
\* assignment to the same frame replacing an earlier one
ApplyGroups(frames, groups) ==
  LET bad == {g \in 1..Len(groups.v) : groups.v[g].t # "arr"}
      stop == IF bad = {} THEN Len(groups.v) + 1 ELSE CHOOSE g \in bad : \A k \in bad : g <= k
      naming(p) == {g \in 1..(stop - 1) :
                      \E m \in 1..Len(groups.v[g].v) : GroupIndex(groups.v[g].v[m]) = p - 1}
  IN [p \in 1..Len(frames) |->
       IF naming(p) = {} THEN frames[p]
       ELSE [frames[p] EXCEPT !.shotGroup =
               (CHOOSE g \in naming(p) : \A k \in naming(p) : k <= g) - 1]]

\* A Pass 2 that takes a failed call or reply for one single group
ApplyPass2OneGroup(frames, reply) ==
  IF reply.kind = "reject" \/ ~BracketSlice(reply).hit \/ ~BracketSlice(reply).parsed.ok
    THEN [p \in 1..Len(frames) |-> [frames[p] EXCEPT !.shotGroup = 0]]
  ELSE ApplyGroups(frames, BracketSlice(reply).parsed.v)

\* The frames after analyzeGroupings, given the reply of its oracle call
ApplyPass2(frames, reply) ==
  IF reply.kind = "reject" THEN frames
  ELSE IF ~BracketSlice(reply).hit THEN frames
  ELSE IF ~BracketSlice(reply).parsed.ok THEN frames
  ELSE ApplyGroups(frames, BracketSlice(reply).parsed.v)

(***************************************************************************)
(* groupIntoShots                                                          *)
(***************************************************************************)
Lower == "abcdefghijklmnopqrstuvwxyz"
Upper == "ABCDEFGHIJKLMNOPQRSTUVWXYZ"

UpperChar(c) ==
  IF \E i \in 1..26 : SubSeq(Lower, i, i) = c
    THEN LET i == CHOOSE k \in 1..26 : SubSeq(Lower, k, k) = c IN SubSeq(Upper, i, i)
  ELSE c

RECURSIVE ToUpper(_)
ToUpper(s) ==
  IF Len(s) = 0 THEN ""
  ELSE UpperChar(SubSeq(s, 1, 1)) \o ToUpper(SubSeq(s, 2, Len(s)))

\* The alternatives of /^(FR|FRAME|SHOT)[\s.]*/i, tried in this order
LabelWords == <<"FR", "FRAME", "SHOT">>

IsSeparator(c) == c \in {" ", "\t", "\n", "\r", "."}

RECURSIVE SkipSeparators(_)
SkipSeparators(s) ==
  IF Len(s) > 0 /\ IsSeparator(SubSeq(s, 1, 1)) THEN SkipSeparators(SubSeq(s, 2, Len(s)))
  ELSE s

\* s.replace(/^(FR|FRAME|SHOT)[\s.]*/i, ''): the first alternative that
\* matches is taken, since [\s.]* matches whatever follows it
StripLabelWord(s) ==
  LET hits == {i \in 1..Len(LabelWords) :
                 /\ Len(s) >= Len(LabelWords[i])
                 /\ ToUpper(SubSeq(s, 1, Len(LabelWords[i]))) = LabelWords[i]}
  IN IF hits = {} THEN s
     ELSE LET w == LabelWords[CHOOSE i \in hits : \A k \in hits : i <= k]
          IN SkipSeparators(SubSeq(s, Len(w) + 1, Len(s)))

RECURSIVE LeadingDigits(_)
LeadingDigits(s) ==
  IF Len(s) > 0 /\ IsDigit(SubSeq(s, 1, 1))
    THEN SubSeq(s, 1, 1) \o LeadingDigits(SubSeq(s, 2, Len(s)))
  ELSE ""

\* ....match(/^(\d+)/)?.[1] of a label; "" stands for undefined
NumPrefix(s) == LeadingDigits(StripLabelWord(s))

\* (f.frameNumber || '') is a string, so that .replace exists
HasReplace(x) == ~Truthy(x) \/ x.t = "str"
LabelText(x) == IF Truthy(x) THEN x.v ELSE ""

\* A rule that compares the whole labels of frames with visible numbers
StartsNewShotByLabel(frames, i) ==
  IF i = 1 THEN TRUE
  ELSE IF frames[i].hasVisibleNumber
    THEN LabelText(frames[i - 1].frameNumber) # LabelText(frames[i].frameNumber)
  ELSE IF frames[i].shotGroup # NoGroup /\ frames[i - 1].shotGroup # NoGroup
    THEN frames[i].shotGroup # frames[i - 1].shotGroup
  ELSE TRUE

\* A rule that compares the tags of frames also when a tag is missing
StartsNewShotByAnyTag(frames, i) ==
  IF i = 1 THEN TRUE
  ELSE IF frames[i].hasVisibleNumber
    THEN NumPrefix(LabelText(frames[i - 1].frameNumber))
           # NumPrefix(LabelText(frames[i].frameNumber))
  ELSE frames[i].shotGroup # frames[i - 1].shotGroup

\* startNewShot for frame i (1-based)
StartsNewShot(frames, i) ==
  IF i = 1 THEN TRUE
  ELSE IF frames[i].hasVisibleNumber
    THEN NumPrefix(LabelText(frames[i - 1].frameNumber))
           # NumPrefix(LabelText(frames[i].frameNumber))
  ELSE IF frames[i].shotGroup # NoGroup /\ frames[i - 1].shotGroup # NoGroup
    THEN frames[i].shotGroup # frames[i - 1].shotGroup
  ELSE TRUE

\* The visible-number branch calls .replace on a label that is no string
ShotsThrow(frames) ==
  \E i \in 2..Len(frames) :
     /\ frames[i].hasVisibleNumber
     /\ ~(HasReplace(frames[i - 1].frameNumber) /\ HasReplace(frames[i].frameNumber))

ToText(x) ==
  CASE x.t = "str" -> x.v
    [] x.t = "num" -> ToString(x.v)
    [] OTHER -> PropertyKey(x)

RECURSIVE JoinLines(_)
JoinLines(s) ==
  IF Len(s) = 0 THEN ""
  ELSE IF Len(s) = 1 THEN ToText(s[1])
  ELSE ToText(s[1]) \o "\n" \o JoinLines(Tail(s))

\* The values x.field of frames[from..to] that are truthy, in order
RECURSIVE Pushed(_, _, _, _)
Pushed(frames, from, to, field) ==
  IF from > to THEN <<>>
  ELSE (IF Truthy(frames[from][field]) THEN <<frames[from][field]>> ELSE <<>>)
         \o Pushed(frames, from + 1, to, field)

\* A shot numbered by the position of its first frame
MakeShotByFrame(frames, from, to, k) ==
  LET descriptions == Pushed(frames, from, to, "description")
      dialogs == Pushed(frames, from, to, "dialog")
  IN [shotNumber |-> ToString(from),
      frames |-> [i \in 1..(to - from + 1) |-> frames[from + i - 1].frameNumber],
      images |-> Pushed(frames, from, to, "image"),
      descriptions |-> descriptions,
      dialogs |-> dialogs,
      description |-> JoinLines(descriptions),
      dialog |-> JoinLines(dialogs),
      combined |-> JoinLines(descriptions \o dialogs)]

\* The shot made of frames[from..to], the k-th of its spot
MakeShot(frames, from, to, k) ==
  LET descriptions == Pushed(frames, from, to, "description")
      dialogs == Pushed(frames, from, to, "dialog")
  IN [shotNumber |-> ToString(k),
      frames |-> [i \in 1..(to - from + 1) |-> frames[from + i - 1].frameNumber],
      images |-> Pushed(frames, from, to, "image"),
      descriptions |-> descriptions,
      dialogs |-> dialogs,
      description |-> JoinLines(descriptions),
      dialog |-> JoinLines(dialogs),
      combined |-> JoinLines(descriptions \o dialogs)]

\* A grouping that never pushes the shot that is open at the end
ShotsWithoutLast(frames) ==
  IF ShotsThrow(frames) THEN Throw("(frames[(i - 1)].frameNumber || \"\").replace is not a function")
  ELSE LET starts == {i \in 1..Len(frames) : StartsNewShot(frames, i)}
           startOf(k) == CHOOSE i \in starts : Cardinality({j \in starts : j < i}) = k - 1
           endOf(k) == startOf(k + 1) - 1
       IN Ok([k \in 1..(Cardinality(starts) - 1) |-> MakeShot(frames, startOf(k), endOf(k), k)])

\* groupIntoShots(frames): Ok(shots) or Throw
groupIntoShots(frames) ==
  IF ShotsThrow(frames) THEN Throw("(frames[(i - 1)].frameNumber || \"\").replace is not a function")
  ELSE LET starts == {i \in 1..Len(frames) : StartsNewShot(frames, i)}
           startOf(k) == CHOOSE i \in starts : Cardinality({j \in starts : j < i}) = k - 1
           endOf(k) == IF k = Cardinality(starts) THEN Len(frames) ELSE startOf(k + 1) - 1
       IN Ok([k \in 1..Cardinality(starts) |-> MakeShot(frames, startOf(k), endOf(k), k)])

(***************************************************************************)
(* What the collaborators may answer                                       *)
(***************************************************************************)
\* Messages of the errors a rendering attempt may end with
LaunchErrors == {"Failed to launch the browser process!"}
RenderErrors ==
  {"PDF.js load timeout after 60 seconds",
   "Navigation Timeout Exceeded: 60000ms exceeded",
   "Failed to load: https://cdnjs.cloudflare.com/ajax/libs/pdf.js/3.11.174/pdf.min.js",
   "net::ERR_CONNECTION_RESET",
   "Protocol error (Runtime.callFunctionOn): Target closed."}
ImageErrors == {"Input buffer contains unsupported image format"}
OracleErrors == {"529 overloaded_error"}

\* A retry condition that takes every "Failed to ..." for a load failure
IsAnyFailure(msg) ==
  \/ Includes(msg, "timeout")
  \/ Includes(msg, "Timeout")
  \/ Includes(msg, "Failed to")
  \/ Includes(msg, "net::")

\* The retry condition of pdfToImages on error.message
IsTransient(msg) ==
  \/ Includes(msg, "timeout")
  \/ Includes(msg, "Timeout")
  \/ Includes(msg, "Failed to load")
  \/ Includes(msg, "net::")

\* The output of the locator script that found these images
Detected(images) ==
  Obj([count |-> Num(Len(images)), rectangles |-> Arr(<<>>), images |-> Arr(images)])
PageImage(p, j) == Str("img-" \o ToString(p) \o "-" \o ToString(j))

\* How one run of the locator script under one interpreter ends: the
\* process cannot be spawned ('error'), or it exits with a code after
\* printing stdout ('close'); stdout is Garbage or the text of a JSON value
SpawnError == [kind |-> "error"]
Closed(code, stdout) == [kind |-> "close", code |-> code, stdout |-> stdout]
Runs(p) ==
  {SpawnError, Closed(1, Garbage), Closed(0, Garbage), Closed(0, Null),
   Closed(0, Detected(<<PageImage(p, 1)>>))}

\* The run makes tryPython give up the interpreter: 'error', or code !== 0
RunFailed(run) == run.kind = "error" \/ run.code # 0

\* 'close' with code 0: JSON.parse(stdout), result.count, resolve(result);
\* the catch resolves with the empty result
ParsedOutput(stdout) ==
  IF JsonParse(stdout).ok /\ ~Nullish(stdout) THEN stdout ELSE EmptyDetected

\* A locator that resolves with null when both interpreters fail
detectRectanglesOrNull(python3, python) ==
  IF ~RunFailed(python3) THEN ParsedOutput(python3.stdout)
  ELSE IF ~RunFailed(python) THEN ParsedOutput(python.stdout)
  ELSE Null

\* detectRectangles(path): the value its promise resolves with, given how
\* the run under python3 and the run under python (the fallback) end
detectRectangles(python3, python) ==
  IF ~RunFailed(python3) THEN ParsedOutput(python3.stdout)
  ELSE IF ~RunFailed(python) THEN ParsedOutput(python.stdout)
  ELSE EmptyDetected

\* What detectRectangles may resolve with for page p
LocatorValues(p) == {detectRectangles(a, b) : a, b \in Runs(p)}

FrameEntry(label, description, dialog) ==
  Obj([frameNumber |-> label, description |-> Str(description), dialog |-> Str(dialog)])
PageEntry(p, spotName, visible, frames) ==
  Obj([pageNum |-> Num(p), spotName |-> spotName, gridLayout |-> Str("2x3"),
       hasVisibleNumbers |-> Bool(visible), frames |-> Arr(frames)])

Reverse(s) == [i \in 1..Len(s) |-> s[Len(s) + 1 - i]]

\* A storyboard with printed frame numbers: page 1 titled "A", page 5 "B"
NumberedPage(p) ==
  PageEntry(p, IF p = 1 THEN Str("A") ELSE IF p = 5 THEN Str("B") ELSE Null, TRUE,
            <<FrameEntry(Str(ToString(p) \o "A"), "wide", ""),
              FrameEntry(Str(ToString(p) \o "B"), "close", "HE: Hi")>>)
\* A storyboard without printed numbers and without titles
UnnumberedPage(p) ==
  PageEntry(p, Null, FALSE,
            <<FrameEntry(Str("1"), "pan", ""), FrameEntry(Str("2"), "", "SHE: Oh")>>)
\* A page titled "N" whose frame numbers are JSON numbers
NumericPage(p) ==
  PageEntry(p, Str("N"), TRUE, <<FrameEntry(Num(1), "a", ""), FrameEntry(Num(2), "b", "")>>)

\* Replies of the oracle to the batched extraction call for these pages
\* (a list, so that replies are never compared with one another)
ExtractReplies(pages) ==
  << Reject(CHOOSE m \in OracleErrors : TRUE),
    Text(FALSE, FALSE, Garbage),
    Text(FALSE, FALSE, Null),
    Text(FALSE, FALSE, Arr([i \in 1..Len(pages) |-> NumberedPage(pages[i])])),
    Text(TRUE, TRUE, Arr(Reverse([i \in 1..Len(pages) |-> UnnumberedPage(pages[i])]))),
    Text(FALSE, FALSE, Arr([i \in 1..Len(pages) |-> NumericPage(pages[i])])),
    Text(TRUE, FALSE, Arr(<<Num(7), Str("page"),
                            Obj([spotName |-> Str("A"), frames |-> Arr(<<>>)]),
                            Obj([pageNum |-> Num(pages[1])]),
                            Null>>)) >>

\* Replies of the oracle to the Pass 2 call
Pass2Replies ==
  << Reject(CHOOSE m \in OracleErrors : TRUE),
    Text(FALSE, FALSE, Garbage),
    Text(FALSE, TRUE, Arr(<<Arr(<<Num(1), Num(2)>>)>>)),
    Text(TRUE, FALSE, Arr(<<Arr(<<Num(1)>>), Arr(<<Num(2), Num(3)>>)>>)),
    Text(FALSE, FALSE, Obj([a |-> Arr(<<>>), b |-> Arr(<<>>)])),
    Text(FALSE, FALSE, Arr(<<Arr(<<Num(2)>>), Num(5), Arr(<<Num(1)>>)>>)) >>

(***************************************************************************)
(* State of the server and of one request to /api/extract-storyboard       *)
(***************************************************************************)
VARIABLES
  pc,              \* where the handler is
  apiKey,          \* process.env.ANTHROPIC_API_KEY is set
  anthropic,       \* the cached client exists
  file,            \* req.file: "none", "pdf" or "image"
  tempDir,         \* "none", "exists" or "removed"
  rmCalls,         \* calls of fs.rm on tempDir
  retryCount,      \* of the running pdfToImages invocation
  attempts,        \* rendering attempts started (invocations of pdfToImages)
  docPages,        \* pages of the uploaded PDF
  browsers,        \* the open browsers, each named by the attempt that launched it
  browser,         \* per invocation: whether its variable browser is set
  images,          \* the array images of the running invocation
  renderAt,        \* i of the page loop of the running invocation
  err,             \* the error being thrown
  pageCount,       \* pageImages.length
  groupAt,         \* index of the first batch of the running batch group
  loc,             \* per page: the detectRectangles call
  ext,             \* per batch: the extractTextBatched call
  batchRes,        \* per batch: the batch's merged page results
  inversion,       \* a call of the group settled before one submitted earlier
  allPageResults,
  allFrames,
  spotGroups,      \* Object.entries(spotGroups): [name, frames] in order
  spotAt,          \* index of the spot the loop is at
  spots,
  locatorCalls,    \* detectRectangles calls started
  oracleCalls,     \* client.messages.create calls started
  pass2Sent,       \* the image blocks of the latest Pass 2 call
  analysisCache,   \* content hash -> [pages, totalRows, timestamp]
  now,             \* Date.now(), in milliseconds since the server started
  nextSweep,       \* when the timer of cleanExpiredCache is due next
  analyzing,       \* the /api/analyze-pdf-pages requests awaiting the oracle
  answer,          \* the latest response of /api/analyze-pdf-pages
  storedBy,        \* content hash -> the response of the request that stored its entry
  procs,           \* the subprocesses started by one detectRectangles call
  settled,         \* the value of the promise of that call, <<>> while pending
  responses        \* what was sent on res

vars == <<pc, apiKey, anthropic, file, docPages, tempDir, rmCalls, retryCount, attempts,
          browsers, browser, images, renderAt, err, pageCount, groupAt, loc, ext, batchRes,
          inversion, allPageResults, allFrames, spotGroups, spotAt, spots,
          locatorCalls, oracleCalls, pass2Sent, analysisCache, now, nextSweep, analyzing,
          answer, storedBy, procs, settled, responses>>

rasterVars == <<retryCount, attempts, browsers, browser, images, renderAt>>
batchVars == <<groupAt, loc, ext, batchRes, inversion, allPageResults>>
spotVars == <<allFrames, spotGroups, spotAt, spots>>
callVars == <<locatorCalls, oracleCalls, pass2Sent, anthropic>>
cacheVars == <<analysisCache, now, nextSweep, analyzing, answer, storedBy>>
procVars == <<procs, settled>>
dirVars == <<tempDir, rmCalls>>

Idle == [st |-> "idle"]
Pending == [st |-> "pending"]
Done(v) == [st |-> "done", v |-> v]

\* No answer of /api/analyze-pdf-pages yet
NoAnswer == [for |-> "", at |-> 0, status |-> 0, body |-> [none |-> TRUE]]

\* The cache and its timer when the server has started
CacheAtStart ==
  /\ analysisCache = <<>>
  /\ now = 0
  /\ nextSweep = SWEEP_EVERY_MS
  /\ analyzing = <<>>
  /\ answer = NoAnswer
  /\ storedBy = <<>>

\* No detectRectangles call is followed process by process
NoLocatorRun == procs = <<>> /\ settled = <<>>

Init ==
  /\ pc = "idle"
  /\ apiKey \in BOOLEAN
  /\ anthropic = FALSE
  /\ file = "none"
  /\ docPages = 0
  /\ tempDir = "none"
  /\ rmCalls = 0
  /\ retryCount = 0
  /\ attempts = 0
  /\ browsers = {}
  /\ browser = <<>>
  /\ images = <<>>
  /\ renderAt = 1
  /\ err = ""
  /\ pageCount = 0
  /\ groupAt = 1
  /\ loc = <<>>
  /\ ext = <<>>
  /\ batchRes = <<>>
  /\ inversion = FALSE
  /\ allPageResults = <<>>
  /\ allFrames = <<>>
  /\ spotGroups = <<>>
  /\ spotAt = 1
  /\ spots = <<>>
  /\ locatorCalls = 0
  /\ oracleCalls = 0
  /\ pass2Sent = <<>>
  /\ CacheAtStart
  /\ NoLocatorRun
  /\ responses = <<>>

(***************************************************************************)
(* The handler of POST /api/extract-storyboard                             *)
(***************************************************************************)
\* An error body that also carries the spots computed so far
ErrorBodyWithSpots(msg) == [error |-> msg, spots |-> spots]

ErrorBody(msg) == [error |-> msg]
SuccessBody(result) == [spots |-> result]
Sent(status, body) == Append(responses, [status |-> status, body |-> body])

\* A return that would leave the handler at once
ReturnLeavesHandler == "done"

\* Where a return inside the try block continues: the finally block
AfterReturn == "finally"

\* A loop that stops before a batch that is not full
BatchCountFloor(n) == n \div BATCH_SIZE

\* batches: up to BATCH_SIZE consecutive pages each
BatchCount(n) == (n + BATCH_SIZE - 1) \div BATCH_SIZE
Batches(n) ==
  [b \in 1..BatchCount(n) |->
     [j \in 1..Min(BATCH_SIZE, n - BATCH_SIZE * (b - 1)) |-> BATCH_SIZE * (b - 1) + j]]

\* A group of all the batches that are left
BatchGroupOfRest(n, at) == at..BatchCount(n)

\* batches.slice(i, i + CONCURRENCY), as batch indices
BatchGroup(n, at) == at..Min(at + CONCURRENCY - 1, BatchCount(n))
PagesOf(n, group) == {p \in 1..n : \E b \in group : \E j \in 1..Len(Batches(n)[b]) : Batches(n)[b][j] = p}

\* const tempDir = await fs.mkdtemp(...)
Receive(f, n) ==
  /\ pc = "idle"
  /\ (f = "pdf") = (n > 0)
  /\ file' = f
  /\ docPages' = n
  /\ tempDir' = "exists"
  /\ pc' = "entered"
  /\ UNCHANGED <<apiKey, rmCalls, rasterVars, err, pageCount, batchVars, spotVars,
                 callVars, cacheVars, procVars, responses>>

\* The check of the upload alone
CheckFileOnly ==
  /\ pc = "entered"
  /\ IF file = "none"
       THEN /\ responses' = Sent(400, ErrorBody("No file uploaded"))
            /\ pc' = AfterReturn
     ELSE /\ responses' = responses
          /\ pc' = IF file = "pdf" THEN "launch" ELSE "convert"
  /\ UNCHANGED <<apiKey, file, docPages, dirVars, rasterVars, err, pageCount, batchVars, spotVars,
                 callVars, cacheVars, procVars>>

\* The two checks at the head of the try block
CheckRequest ==
  /\ pc = "entered"
  /\ IF file = "none"
       THEN /\ responses' = Sent(400, ErrorBody("No file uploaded"))
            /\ pc' = AfterReturn
     ELSE IF ~apiKey
       THEN /\ responses' = Sent(500, ErrorBody("ANTHROPIC_API_KEY not set"))
            /\ pc' = AfterReturn
     ELSE /\ responses' = responses
          /\ pc' = IF file = "pdf" THEN "launch" ELSE "convert"
  /\ UNCHANGED <<apiKey, file, docPages, dirVars, rasterVars, err, pageCount, batchVars, spotVars,
                 callVars, cacheVars, procVars>>

\* pageImages is set: the calls of every page and batch are not started yet
PagesReady(n) ==
  /\ pageCount' = n
  /\ groupAt' = 1
  /\ loc' = [p \in 1..n |-> Idle]
  /\ ext' = [b \in 1..BatchCount(n) |-> Idle]
  /\ batchRes' = [b \in 1..BatchCount(n) |-> Idle]
  /\ inversion' = FALSE
  /\ allPageResults' = <<>>

\* An array that the invocations of one request share
ImagesSoFar == images

\* const images = []: each invocation pushes to an array of its own
NewImages == <<>>

\* pdfToImages: an invocation starts (const images = []) and
\* browser = await puppeteer.launch(...) succeeds
LaunchOk ==
  /\ pc = "launch"
  /\ attempts' = attempts + 1
  /\ images' = NewImages
  /\ renderAt' = 1
  /\ browsers' = browsers \cup {attempts + 1}
  /\ browser' = Append(browser, TRUE)
  /\ pc' = "render"
  /\ UNCHANGED <<apiKey, file, docPages, dirVars, retryCount, err, pageCount, batchVars,
                 spotVars, callVars, cacheVars, procVars, responses>>

\* pdfToImages: an invocation starts and puppeteer.launch throws
LaunchFail(m) ==
  /\ pc = "launch"
  /\ attempts' = attempts + 1
  /\ images' = NewImages
  /\ renderAt' = 1
  /\ browser' = Append(browser, FALSE)
  /\ err' = m
  /\ pc' = "raster_catch"
  /\ UNCHANGED <<apiKey, file, docPages, dirVars, retryCount, browsers, pageCount, batchVars,
                 spotVars, callVars, cacheVars, procVars, responses>>

\* pdfToImages: one turn of the page loop, images.push(imgPath)
RenderPage ==
  /\ pc = "render"
  /\ renderAt <= docPages
  /\ images' = Append(images, renderAt)
  /\ renderAt' = renderAt + 1
  /\ UNCHANGED <<pc, apiKey, file, docPages, dirVars, retryCount, attempts, browsers, browser,
                 err, pageCount, batchVars, spotVars, callVars, cacheVars, procVars, responses>>

\* pdfToImages: "return images" after the last page
RenderReturn ==
  /\ pc = "render"
  /\ renderAt > docPages
  /\ pc' = "raster_finally"
  /\ UNCHANGED <<apiKey, file, docPages, dirVars, rasterVars, err, pageCount, batchVars,
                 spotVars, callVars, cacheVars, procVars, responses>>

\* pdfToImages: a step between launch and return throws
RenderFail(m) ==
  /\ pc = "render"
  /\ err' = m
  /\ pc' = "raster_catch"
  /\ UNCHANGED <<apiKey, file, docPages, dirVars, rasterVars, pageCount, batchVars, spotVars,
                 callVars, cacheVars, procVars, responses>>

\* A block that leaves the browser of the running invocation open
LeaveBrowserOpen == browsers

\* if (browser) await browser.close(), in the running invocation
CloseBrowser == IF browser[attempts] THEN browsers \ {attempts} ELSE browsers

\* A retry condition that allows one retry more
RetryOnceMore(count, msg) == count <= MAX_RETRIES /\ IsTransient(msg)

\* The retry condition of the catch block
ShouldRetry(count, msg) == count < MAX_RETRIES /\ IsTransient(msg)

\* pdfToImages: the catch block, which closes the browser, sets the variable
\* to null, and retries or rethrows (the finally block then finds null)
RasterCatch ==
  /\ pc = "raster_catch"
  /\ browsers' = CloseBrowser
  /\ browser' = [browser EXCEPT ![attempts] = FALSE]
  /\ IF ShouldRetry(retryCount, err)
       THEN retryCount' = retryCount + 1 /\ err' = "" /\ pc' = "launch"
     ELSE retryCount' = retryCount /\ err' = err /\ pc' = "catch"
  /\ UNCHANGED <<apiKey, file, docPages, dirVars, attempts, images, renderAt, pageCount, batchVars,
                 spotVars, callVars, cacheVars, procVars, responses>>

\* pdfToImages: the finally block after "return images"; every invocation
\* of the chain returns and pageImages takes the value
RasterFinally ==
  /\ pc = "raster_finally"
  /\ browsers' = CloseBrowser
  /\ PagesReady(Len(images))
  /\ retryCount' = 0
  /\ attempts' = 0
  /\ browser' = <<>>
  /\ images' = <<>>
  /\ renderAt' = 1
  /\ pc' = "batch"
  /\ UNCHANGED <<apiKey, file, docPages, dirVars, err, spotVars, callVars, cacheVars, procVars, responses>>

\* A still image: sharp(req.file.buffer).png().toFile(imgPath)
ConvertOk ==
  /\ pc = "convert"
  /\ PagesReady(1)
  /\ pc' = "batch"
  /\ UNCHANGED <<apiKey, file, docPages, dirVars, rasterVars, err, spotVars, callVars, cacheVars, procVars, responses>>

ConvertFail(m) ==
  /\ pc = "convert"
  /\ err' = m
  /\ pc' = "catch"
  /\ UNCHANGED <<apiKey, file, docPages, dirVars, rasterVars, pageCount, batchVars, spotVars,
                 callVars, cacheVars, procVars, responses>>

\* One turn of the batch-group loop: the calls of the group's batches start
StartGroup ==
  /\ pc = "batch"
  /\ groupAt <= BatchCount(pageCount)
  /\ LET group == BatchGroup(pageCount, groupAt)
     IN /\ loc' = [p \in 1..pageCount |->
                     IF p \in PagesOf(pageCount, group) THEN Pending ELSE loc[p]]
        /\ ext' = [b \in 1..BatchCount(pageCount) |-> IF b \in group THEN Pending ELSE ext[b]]
        /\ locatorCalls' = locatorCalls + Cardinality(PagesOf(pageCount, group))
        /\ oracleCalls' = oracleCalls + Cardinality(group)
  /\ anthropic' = TRUE
  /\ pc' = "wait"
  /\ UNCHANGED <<apiKey, file, docPages, dirVars, rasterVars, err, pageCount, groupAt, batchRes,
                 inversion, allPageResults, spotVars, pass2Sent, cacheVars, procVars, responses>>

\* detectRectangles(path) of page p resolves
LocatorDone(p, d) ==
  /\ pc = "wait"
  /\ loc[p] = Pending
  /\ loc' = [loc EXCEPT ![p] = Done(d)]
  /\ inversion' = (inversion \/ \E q \in 1..(p - 1) : loc[q] = Pending)
  /\ UNCHANGED <<pc, apiKey, file, docPages, dirVars, rasterVars, err, pageCount, groupAt, ext,
                 batchRes, allPageResults, spotVars, callVars, cacheVars, procVars, responses>>

\* extractTextBatched(batch) of batch b settles
ExtractDone(b, reply) ==
  /\ pc = "wait"
  /\ ext[b] = Pending
  /\ LET r == extractTextBatched(Batches(pageCount)[b], reply)
     IN IF r.ok
          THEN ext' = [ext EXCEPT ![b] = Done(r.v)] /\ UNCHANGED <<pc, err>>
        ELSE ext' = [ext EXCEPT ![b] = [st |-> "rejected"]] /\ err' = r.error /\ pc' = "catch"
  /\ inversion' = (inversion \/ \E p \in 1..Batches(pageCount)[b][Len(Batches(pageCount)[b])] :
                                   loc[p] = Pending)
  /\ UNCHANGED <<apiKey, file, docPages, dirVars, rasterVars, pageCount, groupAt, loc, batchRes,
                 allPageResults, spotVars, callVars, cacheVars, procVars, responses>>

\* Promise.all(rectPromises): the values in the order of the batch's pages
RectResults(b) ==
  [i \in 1..Len(Batches(pageCount)[b]) |->
     [pageNum |-> Batches(pageCount)[b][i], detected |-> loc[Batches(pageCount)[b][i]].v]]

\* Both promises of batch b are fulfilled: "Merge results by page"
BatchJoin(b) ==
  /\ pc = "wait"
  /\ batchRes[b] = Idle
  /\ ext[b].st = "done"
  /\ \A i \in 1..Len(Batches(pageCount)[b]) : loc[Batches(pageCount)[b][i]].st = "done"
  /\ LET m == MergeBatch(Batches(pageCount)[b], RectResults(b), ext[b].v)
     IN IF m.ok
          THEN batchRes' = [batchRes EXCEPT ![b] = Done(m.v)] /\ UNCHANGED <<pc, err>>
        ELSE batchRes' = [batchRes EXCEPT ![b] = [st |-> "rejected"]]
               /\ err' = m.error /\ pc' = "catch"
  /\ UNCHANGED <<apiKey, file, docPages, dirVars, rasterVars, pageCount, groupAt, loc, ext,
                 inversion, allPageResults, spotVars, callVars, cacheVars, procVars, responses>>

\* batchResults.flat() of a group whose batches are all merged
RECURSIVE Flat(_, _, _)
Flat(res, from, to) ==
  IF from > to THEN <<>> ELSE res[from].v \o Flat(res, from + 1, to)

\* Promise.all over the group is fulfilled: allPageResults.push(...)
GroupJoin ==
  /\ pc = "wait"
  /\ \A b \in BatchGroup(pageCount, groupAt) : batchRes[b].st = "done"
  /\ allPageResults' = allPageResults
        \o Flat(batchRes, groupAt, Min(groupAt + CONCURRENCY - 1, BatchCount(pageCount)))
  /\ groupAt' = groupAt + CONCURRENCY
  /\ pc' = "batch"
  /\ UNCHANGED <<apiKey, file, docPages, dirVars, rasterVars, err, pageCount, loc, ext, batchRes,
                 inversion, spotVars, callVars, cacheVars, procVars, responses>>

\* The loop over batch groups is over
BatchesDone ==
  /\ pc = "batch"
  /\ groupAt > BatchCount(pageCount)
  /\ pc' = "merge"
  /\ UNCHANGED <<apiKey, file, docPages, dirVars, rasterVars, err, pageCount, batchVars, spotVars,
                 callVars, cacheVars, procVars, responses>>

\* allPageResults.sort(...) and the loop that builds allFrames
MergePages ==
  /\ pc = "merge"
  /\ allPageResults' = SortByPage(allPageResults)
  /\ allFrames' = MergeFrames(SortByPage(allPageResults))
  /\ pc' = "group"
  /\ UNCHANGED <<apiKey, file, docPages, dirVars, rasterVars, err, pageCount, groupAt, loc, ext,
                 batchRes, inversion, spotGroups, spotAt, spots, callVars, cacheVars, procVars, responses>>

\* "Group frames by spot"
GroupSpots ==
  /\ pc = "group"
  /\ LET g == GroupBySpot(allFrames)
     IN IF g.ok
          THEN spotGroups' = ObjectEntries(g.v) /\ pc' = "spot" /\ err' = err
        ELSE spotGroups' = spotGroups /\ pc' = "catch" /\ err' = g.error
  /\ spotAt' = 1
  /\ spots' = <<>>
  /\ UNCHANGED <<apiKey, file, docPages, dirVars, rasterVars, pageCount, batchVars, allFrames,
                 callVars, cacheVars, procVars, responses>>

\* One spot: the renumbering check, renumbering, and analyzeGroupings up
\* to its oracle call
SpotBegin ==
  /\ pc = "spot"
  /\ spotAt <= Len(spotGroups)
  /\ LET frames == spotGroups[spotAt].frames
     IN IF NeedsRenumber(frames)
          THEN /\ spotGroups' = [spotGroups EXCEPT ![spotAt].frames = Renumber(frames)]
               /\ IF Pass2Calls(Renumber(frames))
                    THEN /\ oracleCalls' = oracleCalls + 1
                         /\ pass2Sent' = Thumbnails(Renumber(frames))
                         /\ pc' = "pass2"
                  ELSE UNCHANGED <<oracleCalls, pass2Sent>> /\ pc' = "shots"
        ELSE UNCHANGED <<spotGroups, oracleCalls, pass2Sent>> /\ pc' = "shots"
  /\ UNCHANGED <<apiKey, file, docPages, dirVars, rasterVars, err, pageCount, batchVars, allFrames,
                 spotAt, spots, locatorCalls, anthropic, cacheVars, procVars, responses>>

\* analyzeGroupings: its oracle call settles
Pass2Done(reply) ==
  /\ pc = "pass2"
  /\ spotGroups' = [spotGroups EXCEPT ![spotAt].frames = ApplyPass2(@, reply)]
  /\ pc' = "shots"
  /\ UNCHANGED <<apiKey, file, docPages, dirVars, rasterVars, err, pageCount, batchVars, allFrames,
                 spotAt, spots, callVars, cacheVars, procVars, responses>>

\* spots.push({ name, shots: groupIntoShots(frames) })
SpotShots ==
  /\ pc = "shots"
  /\ LET r == groupIntoShots(spotGroups[spotAt].frames)
     IN IF r.ok
          THEN /\ spots' = Append(spots, [name |-> spotGroups[spotAt].name, shots |-> r.v])
               /\ spotAt' = spotAt + 1
               /\ pc' = "spot"
               /\ err' = err
        ELSE /\ UNCHANGED <<spots, spotAt>>
             /\ pc' = "catch"
             /\ err' = r.error
  /\ UNCHANGED <<apiKey, file, docPages, dirVars, rasterVars, pageCount, batchVars, allFrames,
                 spotGroups, callVars, cacheVars, procVars, responses>>

\* Control leaves the try block: its variables go out of scope (spots, the
\* value computed so far, is kept)
LocalsDropped ==
  /\ retryCount' = 0
  /\ attempts' = 0
  /\ browser' = <<>>
  /\ images' = <<>>
  /\ renderAt' = 1
  /\ pageCount' = 0
  /\ groupAt' = 1
  /\ loc' = <<>>
  /\ ext' = <<>>
  /\ batchRes' = <<>>
  /\ inversion' = FALSE
  /\ allPageResults' = <<>>
  /\ allFrames' = <<>>
  /\ spotGroups' = <<>>
  /\ spotAt' = 1

\* res.json({ spots })
Respond ==
  /\ pc = "spot"
  /\ spotAt > Len(spotGroups)
  /\ responses' = Sent(200, SuccessBody(spots))
  /\ pc' = AfterReturn
  /\ LocalsDropped
  /\ UNCHANGED <<apiKey, file, docPages, dirVars, browsers, err, spots, callVars, cacheVars, procVars>>

\* The catch block of the handler
HandlerCatch ==
  /\ pc = "catch"
  /\ responses' = Sent(500, ErrorBody(err))
  /\ pc' = "finally"
  /\ LocalsDropped
  /\ UNCHANGED <<apiKey, file, docPages, dirVars, browsers, err, spots, callVars, cacheVars, procVars>>

\* The finally block: fs.rm(tempDir, { recursive: true, force: true }), whose
\* failure is swallowed
Cleanup(removed) ==
  /\ pc = "finally"
  /\ rmCalls' = rmCalls + 1
  /\ tempDir' = IF removed THEN "removed" ELSE "exists"
  /\ pc' = "done"
  /\ UNCHANGED <<apiKey, file, docPages, rasterVars, err, pageCount, batchVars, spotVars, callVars, cacheVars, procVars,
                 responses>>

Next ==
  \/ \E f \in {"none", "pdf", "image"} : \E n \in 0..MaxPages : Receive(f, n)
  \/ CheckRequest
  \/ LaunchOk
  \/ \E m \in LaunchErrors : LaunchFail(m)
  \/ RenderPage
  \/ RenderReturn
  \/ \E m \in RenderErrors : RenderFail(m)
  \/ RasterCatch
  \/ RasterFinally
  \/ ConvertOk
  \/ \E m \in ImageErrors : ConvertFail(m)
  \/ StartGroup
  \/ \E p \in 1..pageCount : \E d \in LocatorValues(p) : LocatorDone(p, d)
  \/ \E b \in 1..BatchCount(pageCount) :
        \E k \in 1..Len(ExtractReplies(Batches(pageCount)[b])) :
           ExtractDone(b, ExtractReplies(Batches(pageCount)[b])[k])
  \/ \E b \in 1..BatchCount(pageCount) : BatchJoin(b)
  \/ GroupJoin
  \/ BatchesDone
  \/ MergePages
  \/ GroupSpots
  \/ SpotBegin
  \/ \E k \in 1..Len(Pass2Replies) : Pass2Done(Pass2Replies[k])
  \/ SpotShots
  \/ Respond
  \/ HandlerCatch
  \/ \E removed \in BOOLEAN : Cleanup(removed)

Spec == Init /\ [][Next]_vars

(***************************************************************************)
(* The merge and the grouping by spot, started from page results of every  *)
(* shape the locator and the extractor produce                             *)
(***************************************************************************)
\* The text frames of a page of t frames: the even ones carry a label only
TextFrame(p, j) ==
  IF j % 2 = 1
    THEN FrameEntry(Str(ToString(p) \o "." \o ToString(j)), "action " \o ToString(j), "VO " \o ToString(j))
  ELSE Obj([frameNumber |-> Str(ToString(p) \o "." \o ToString(j))])

\* A page result with l located images and t text frames, as the batch
\* mapper builds it
PageResult(p, l, t, title) ==
  [detected |-> Detected([j \in 1..l |-> PageImage(p, j)]),
   textData |-> PageEntry(p, title, TRUE, [j \in 1..t |-> TextFrame(p, j)]),
   pageNum |-> p]

\* Values of spotName in a reply: null, the empty string, titles, a title
\* that is a property every object inherits, and titles made of digits
Titles == <<Null, Str(""), Str("A"), Str("B"), Str("constructor"), Str("10"), Str("2")>>

\* The shape of a page: <<images, text frames, index of its title>>.
\* Untitled pages with every number of images and text frames, and pages of
\* one image and one text frame with every title
CountedShapes == {<<l, t, 1>> : l \in 0..MaxImages, t \in 0..MaxTextFrames}
TitledShapes == {<<1, 1, k>> : k \in 1..Len(Titles)}
Documents ==
  UNION {[1..n -> CountedShapes] : n \in 1..MaxCountedPages}
    \cup UNION {[1..n -> TitledShapes] : n \in 1..MaxMergePages}

\* The page results of a document, in page order (Promise.all keeps the
\* order of the batches and of the pages of a batch)
Results(doc) ==
  [p \in 1..Len(doc) |-> PageResult(p, doc[p][1], doc[p][2], Titles[doc[p][3]])]

InitMerge ==
  /\ pc = "merge"
  /\ apiKey = TRUE
  /\ anthropic = TRUE
  /\ file = "pdf"
  /\ \E doc \in Documents :
       /\ allPageResults = Results(doc)
       /\ docPages = Len(doc)
       /\ pageCount = Len(doc)
       /\ groupAt = BatchCount(Len(doc)) + 1
       /\ locatorCalls = Len(doc)
       /\ oracleCalls = BatchCount(Len(doc))
       /\ pass2Sent = <<>>
       /\ CacheAtStart
       /\ NoLocatorRun
  /\ tempDir = "exists"
  /\ rmCalls = 0
  /\ retryCount = 0
  /\ attempts = 0
  /\ browsers = {}
  /\ browser = <<>>
  /\ images = <<>>
  /\ renderAt = 1
  /\ err = ""
  /\ loc = <<>>
  /\ ext = <<>>
  /\ batchRes = <<>>
  /\ inversion = FALSE
  /\ allFrames = <<>>
  /\ spotGroups = <<>>
  /\ spotAt = 1
  /\ spots = <<>>
  /\ responses = <<>>

NextMerge ==
  \/ MergePages
  \/ GroupSpots

SpecMerge == InitMerge /\ [][NextMerge]_vars

(***************************************************************************)
(* Properties of the handler and of the rasterizer                         *)
(***************************************************************************)
\* C1: a request that created its temporary directory does not finish
\* before the recursive removal of the directory was attempted, whichever
\* way the handler is left (early return, success, error in any stage).
TempDirRemovalAttempted ==
  pc = "done" => (tempDir # "none" /\ rmCalls >= 1)

\* C1, reached: the handler is over after an error that came up once the
\* extraction had started, and the removal itself failed silently
RemovalAfterLateError ==
  /\ pc = "done"
  /\ rmCalls = 1
  /\ tempDir = "exists"
  /\ oracleCalls > 0
  /\ Len(responses) = 1
  /\ responses[1].status = 500

\* C2: the rasterizer makes at most 3 attempts for a document, whatever the
\* failures; the page list it returns is the one of the attempt that
\* succeeded, and the handler goes on with exactly that list.
AtMostThreeAttempts ==
  /\ attempts <= 3
  /\ (pc = "raster_finally" => images = [i \in 1..docPages |-> i])
  /\ (file = "pdf" /\ pc \in {"batch", "wait", "merge"} => pageCount = docPages)

\* C2, reached: the third attempt returns the pages after two failures
ThirdAttemptReturns ==
  /\ pc = "raster_finally"
  /\ attempts = 3
  /\ retryCount = 2
  /\ docPages >= 2
  /\ Len(images) = docPages

\* The message has none of the four substrings that make an error transient
NotTransientMessage(msg) ==
  \A pat \in {"timeout", "Timeout", "Failed to load", "net::"} : ~Includes(msg, pat)

\* C3: when an attempt ends with an error whose message is not transient,
\* the rasterizer makes no further attempt and rethrows that error, which
\* the handler then reports.
PermanentErrorRethrown ==
  [][(pc = "raster_catch" /\ NotTransientMessage(err))
       => (pc' = "catch" /\ err' = err /\ attempts' = attempts
           /\ retryCount' = retryCount)]_vars

\* C3, reached: the first attempt failed for good and the error is with the
\* handler after that single attempt
FirstAttemptFailedForGood ==
  /\ pc = "catch"
  /\ attempts = 1
  /\ retryCount = 0
  /\ err \in LaunchErrors
  /\ NotTransientMessage(err)

\* C4: without the credential, a request with a file gets the error
\* response and nothing else happens: no rendering attempt, no image
\* conversion, no locator call, no oracle call.
NothingRunsWithoutCredential ==
  ~apiKey =>
    /\ pc \in {"idle", "entered", "finally", "done"}
    /\ attempts = 0
    /\ browsers = {}
    /\ pageCount = 0
    /\ locatorCalls = 0
    /\ oracleCalls = 0
    /\ ~anthropic
    /\ (file # "none" /\ pc \in {"finally", "done"}
          => responses = <<[status |-> 500, body |-> [error |-> "ANTHROPIC_API_KEY not set"]]>>)

\* C4, reached: a PDF was uploaded without the credential and the handler
\* is over
RefusedWithoutCredential ==
  /\ pc = "done"
  /\ ~apiKey
  /\ file = "pdf"
  /\ Len(responses) = 1

\* C5: the only failures that end a request that has a file with an error
\* response are a failed rasterization and the missing credential; when
\* the oracle call of a batch's text extraction rejects, the request still
\* succeeds.
OnlyRasterAndCredentialFail ==
  /\ (\E b \in DOMAIN ext : ext[b].st = "rejected") => pc # "catch"
  /\ \A i \in 1..Len(responses) :
       responses[i].status # 200
         => \/ file = "none"
            \/ ~apiKey
            \/ err \in LaunchErrors \cup RenderErrors \cup ImageErrors

\* C6: whatever the shape of the oracle's reply to the extraction call, the
\* request ends with the success response: an error response comes from
\* nothing but the upload, the credential, the rasterization or a failed
\* oracle call.
MalformedReplyNeverFails ==
  \A i \in 1..Len(responses) :
    responses[i].status # 200
      => responses[i].body.error \in
           {"No file uploaded", "ANTHROPIC_API_KEY not set"}
             \cup LaunchErrors \cup RenderErrors \cup ImageErrors \cup OracleErrors

\* C7: a request gets exactly one response, which is either the success
\* response with the field spots and nothing else, or an error response
\* with the field error and nothing else.
OneResponseOfOneKind ==
  /\ Len(responses) <= 1
  /\ (pc \in {"finally", "done"} => Len(responses) = 1)
  /\ \A i \in 1..Len(responses) :
       \/ responses[i].status = 200 /\ DOMAIN responses[i].body = {"spots"}
       \/ responses[i].status \in {400, 500} /\ DOMAIN responses[i].body = {"error"}

\* C7, reached: the error response was sent after the shots of an earlier
\* spot had been computed
ErrorAfterSpotsComputed ==
  /\ Len(responses) = 1
  /\ responses[1].status = 500
  /\ spots # <<>>

\* The frames of allFrames that come from page p, in their order
FramesOfPage(p) == SelectSeq(allFrames, LAMBDA f : f.pageNum = p)

\* What the extractor returned for page p: the frames of the first entry of
\* the reply of p's batch that has that page number
ExtractedFrames(p) ==
  LET entries == ext[(p - 1) \div BATCH_SIZE + 1].v.v
      hits == {i \in 1..Len(entries) : StrictEq(Prop(entries[i], "pageNum"), Num(p))}
      frames == IF hits = {} THEN Undef
                ELSE Prop(entries[CHOOSE i \in hits : \A k \in hits : i <= k], "frames")
  IN IF frames.t = "arr" THEN frames.v ELSE <<>>

\* C9: the merged frames are in ascending page order and, within a page, in
\* the order of the extractor's output, in whatever order the calls of the
\* pages and batches settled.
FramesInPageAndExtractorOrder ==
  pc = "group" =>
    /\ \A i, j \in 1..Len(allFrames) : i < j => allFrames[i].pageNum <= allFrames[j].pageNum
    /\ \A p \in 1..pageCount :
         /\ Len(FramesOfPage(p)) >= Len(ExtractedFrames(p))
         /\ \A j \in 1..Len(ExtractedFrames(p)) :
              /\ FramesOfPage(p)[j].frameNumber = ExtractedFrames(p)[j].v.frameNumber
              /\ FramesOfPage(p)[j].description = ExtractedFrames(p)[j].v.description

\* C9, reached: the frames of five pages in two batches are merged after a
\* call had settled before one that was submitted earlier
MergedAfterOutOfOrderCompletion ==
  /\ pc = "group"
  /\ inversion
  /\ pageCount = 5
  /\ Len(allFrames) >= 10

(***************************************************************************)
(* Properties of the merge and of the grouping by spot                     *)
(***************************************************************************)
\* The located images and the text frames of a page result
LocatedImages(r) == r.detected.v.images.v
TextFrames(r) == r.textData.v.frames.v

\* The field k of a text frame as the merge takes it: "" when it is missing
TextField(e, k) == IF k \in DOMAIN e.v THEN e.v[k] ELSE Str("")

\* C8: a page with L located images and T text frames gives exactly
\* max(L, T) frame records; record j has the label and the texts of text
\* frame j and image j; past the text frames description and dialog are
\* empty, past the images the image is null; nothing is dropped.
MaxOfImagesAndTextFrames ==
  pc # "merge" =>
    \A i \in 1..Len(allPageResults) :
      LET r == allPageResults[i]
          L == Len(LocatedImages(r))
          T == Len(TextFrames(r))
          fs == FramesOfPage(r.pageNum)
      IN /\ Len(fs) = IF L >= T THEN L ELSE T
         /\ \A j \in 1..Len(fs) :
              /\ j <= T => /\ fs[j].frameNumber = TextField(TextFrames(r)[j], "frameNumber")
                           /\ fs[j].description = TextField(TextFrames(r)[j], "description")
                           /\ fs[j].dialog = TextField(TextFrames(r)[j], "dialog")
              /\ j > T => fs[j].description = Str("") /\ fs[j].dialog = Str("")
              /\ j <= L => fs[j].image = LocatedImages(r)[j]
              /\ j > L => fs[j].image = Null

\* C8, reached: merged pages one of which has more images than text frames
\* and another more text frames than images
MergedUnevenPages ==
  /\ pc = "group"
  /\ \E i, k \in 1..Len(allPageResults) :
       /\ Len(LocatedImages(allPageResults[i])) > Len(TextFrames(allPageResults[i]))
       /\ Len(TextFrames(allPageResults[i])) > 0
       /\ Len(TextFrames(allPageResults[k])) > Len(LocatedImages(allPageResults[k]))
  /\ Len(allFrames) >= 4

\* A page declares a title when the extractor gave it a non-empty string
DeclaresTitle(r) ==
  LET t == Prop(r.textData, "spotName") IN t.t = "str" /\ t.v # ""

\* The title in force on the i-th page: the one of the latest page up to
\* it that declares a title, "Untitled" when there is none
TitleInForce(i) ==
  LET declared == {k \in 1..i : DeclaresTitle(allPageResults[k])}
  IN IF declared = {} THEN "Untitled"
     ELSE allPageResults[CHOOSE k \in declared : \A m \in declared : m <= k].textData.v.spotName.v

\* C10: every frame is attributed to the latest title declared on its page
\* or on an earlier page, or to "Untitled" when no page up to it declared
\* one: the frames are grouped into spots by that title.
FramesFollowLatestTitle ==
  pc \notin {"merge", "group"} =>
    /\ pc = "spot"
    /\ \A i \in 1..Len(allPageResults) :
         \A j \in 1..Len(FramesOfPage(i)) :
           LET holders == {g \in 1..Len(spotGroups) :
                             \E k \in 1..Len(spotGroups[g].frames) :
                                spotGroups[g].frames[k] = FramesOfPage(i)[j]}
           IN /\ holders # {}
              /\ \A g \in holders : spotGroups[g].name = TitleInForce(i)

(***************************************************************************)
(* One spot from the renumbering check to the response, started from the   *)
(* frames of a spot as the merge builds them                               *)
(***************************************************************************)
\* A frame of allFrames: label, page, visible numbers on its page, image
SpotFrame(label, page, visible, withImage, at) ==
  [frameNumber |-> Str(label),
   hasVisibleNumber |-> visible,
   description |-> Str("action " \o ToString(at)),
   dialog |-> Str(""),
   image |-> IF withImage THEN PageImage(page, at) ELSE Null,
   spotName |-> Null,
   pageNum |-> page,
   shotGroup |-> NoGroup]

\* Labels of the frames of a spot that spans two pages: numbers, and a
\* label that is a property every object inherits
PlainLabels == <<"1", "2", "constructor">>

\* Frames <<label, page, visible, image>> in page order, the frames of a
\* page sharing the page's hasVisibleNumbers
PagedSpots ==
  UNION {{f \in [1..n -> (1..Len(PlainLabels)) \X (1..2) \X BOOLEAN \X BOOLEAN] :
            \A i, j \in 1..n :
               /\ i < j => f[i][2] <= f[j][2]
               /\ f[i][2] = f[j][2] => f[i][3] = f[j][3]}
           : n \in 1..MaxSpotFrames}

\* Labels as they are printed on storyboards
PrintedLabels ==
  <<"1A", "1B", "2", "3A", "3B", "A", "B",
    "FRAME 1", "FRAME 1A", "FRAME 1B", "FRAME 2",
    "FR 1A", "FR 1B", "fr.2", "SHOT 1A", "Shot 1b", "shot2">>

\* Label sequences of one page with visible numbers: every pair of printed
\* labels, and the five plain labels in a row
PrintedSpots ==
  {<<PrintedLabels[a], PrintedLabels[b]>> : a, b \in 1..Len(PrintedLabels)}
    \cup {SubSeq(PrintedLabels, 1, 5)}

\* Spots of one unnumbered page with about MAX_PASS2_IMAGES frames: every
\* frame has an image, or every frame but the one at `gap`
LongSpots ==
  {[i \in 1..n |-> SpotFrame("1", 1, FALSE, i # gap, i)]
     : n \in (MAX_PASS2_IMAGES - 1)..MaxLongSpot, gap \in {0, 1, 13}}

SpotInputs ==
  {[i \in 1..Len(f) |-> SpotFrame(PlainLabels[f[i][1]], f[i][2], f[i][3], f[i][4], i)]
     : f \in PagedSpots}
    \cup {[i \in 1..Len(ls) |-> SpotFrame(ls[i], 1, TRUE, TRUE, i)] : ls \in PrintedSpots}
    \cup LongSpots

InitSpot ==
  /\ pc = "spot"
  /\ apiKey = TRUE
  /\ anthropic = TRUE
  /\ file = "pdf"
  /\ docPages = 2
  /\ pageCount = 2
  /\ groupAt = 2
  /\ locatorCalls = 2
  /\ oracleCalls = 1
  /\ pass2Sent = <<>>
  /\ CacheAtStart
  /\ NoLocatorRun
  /\ \E fs \in SpotInputs :
       /\ allFrames = fs
       /\ spotGroups = <<[name |-> "Untitled", frames |-> fs]>>
  /\ spotAt = 1
  /\ spots = <<>>
  /\ tempDir = "exists"
  /\ rmCalls = 0
  /\ retryCount = 0
  /\ attempts = 0
  /\ browsers = {}
  /\ browser = <<>>
  /\ images = <<>>
  /\ renderAt = 1
  /\ err = ""
  /\ loc = <<>>
  /\ ext = <<>>
  /\ batchRes = <<>>
  /\ inversion = FALSE
  /\ allPageResults = <<>>
  /\ responses = <<>>

NextSpotStep ==
  \/ SpotBegin
  \/ \E k \in 1..Len(Pass2Replies) : Pass2Done(Pass2Replies[k])
  \/ SpotShots
  \/ Respond

SpecSpot == InitSpot /\ [][NextSpotStep]_vars

(***************************************************************************)
(* Properties of the renumbering, of Pass 2 and of groupIntoShots          *)
(***************************************************************************)
\* The renumbering check of the only spot is over
SpotChecked == Len(spotGroups) = 1 /\ (pc \in {"pass2", "shots"} \/ spotAt = 2)

\* The frames of the spot as they are now, and their labels then and now
SpotFrames == spotGroups[1].frames
LabelsBefore == [i \in 1..Len(allFrames) |-> allFrames[i].frameNumber]
LabelsNow == [i \in 1..Len(SpotFrames) |-> SpotFrames[i].frameNumber]
Sequential(n) == [i \in 1..n |-> Str(ToString(i))]

\* A frame lacks a visible number, or two frames carry the same label and
\* come from different pages
MissingOrRepeated(frames) ==
  \/ \E i \in 1..Len(frames) : ~frames[i].hasVisibleNumber
  \/ \E i, j \in 1..Len(frames) :
       /\ frames[i].frameNumber = frames[j].frameNumber
       /\ frames[i].pageNum # frames[j].pageNum

\* C11: the frames of a spot are renumbered if and only if a frame lacks a
\* visible number or two frames from different pages carry the same label;
\* a spot with visible numbers and pairwise different labels keeps every
\* label.
RenumberedIffMissingOrRepeated ==
  SpotChecked =>
    IF MissingOrRepeated(allFrames) THEN LabelsNow = Sequential(Len(allFrames))
    ELSE LabelsNow = LabelsBefore

\* C12: when a spot of n frames is renumbered, its i-th frame in merge order
\* gets the label String(i), whatever its label was, and the frames are
\* otherwise the same frames in the same order.
RenumberedInMergeOrder ==
  (SpotChecked /\ (MissingOrRepeated(allFrames) \/ LabelsNow # LabelsBefore)) =>
    /\ Len(SpotFrames) = Len(allFrames)
    /\ LabelsNow = Sequential(Len(allFrames))
    /\ \A i \in 1..Len(allFrames) :
         [SpotFrames[i] EXCEPT !.frameNumber = Null, !.shotGroup = NoGroup]
           = [allFrames[i] EXCEPT !.frameNumber = Null]

\* C12, reached: the labels "1", "2", "1" of two pages with visible numbers
\* became "1", "2", "3"
RepeatedLabelRenumbered ==
  /\ SpotChecked
  /\ LabelsBefore = <<Str("1"), Str("2"), Str("1")>>
  /\ \A i \in 1..3 : allFrames[i].hasVisibleNumber
  /\ LabelsNow = Sequential(3)

\* The shots of the only spot are made
ShotsMade == Len(spotGroups) = 1 /\ pc = "spot" /\ spotAt = 2 /\ Len(spots) = 1
SpotShotsNow == spots[1].shots

\* The position of the first frame of shot k among the frames of the spot
RECURSIVE FirstFrameOf(_)
FirstFrameOf(k) ==
  IF k = 1 THEN 1 ELSE FirstFrameOf(k - 1) + Len(SpotShotsNow[k - 1].frames)
NewShotAt(i) == \E k \in 1..Len(SpotShotsNow) : FirstFrameOf(k) = i

\* The frame lists of the shots from shot k on, one after the other
RECURSIVE ShotFramesFrom(_)
ShotFramesFrom(k) ==
  IF k > Len(SpotShotsNow) THEN <<>> ELSE SpotShotsNow[k].frames \o ShotFramesFrom(k + 1)

\* The run of digits a text begins with
RECURSIVE DigitRun(_)
DigitRun(s) ==
  IF Len(s) > 0 /\ SubSeq(s, 1, 1) \in {"0", "1", "2", "3", "4", "5", "6", "7", "8", "9"}
    THEN SubSeq(s, 1, 1) \o DigitRun(SubSeq(s, 2, Len(s)))
  ELSE ""

\* The text begins with the word w, in any letter case
BeginsWith(s, w) == Len(s) >= Len(w) /\ ToUpper(SubSeq(s, 1, Len(w))) = w
BeginsWithLabelWord(s) == BeginsWith(s, "FR") \/ BeginsWith(s, "SHOT")

\* The text without the spaces and dots it begins with
RECURSIVE AfterSeparators(_)
AfterSeparators(s) ==
  IF Len(s) > 0 /\ SubSeq(s, 1, 1) \in {" ", "."} THEN AfterSeparators(SubSeq(s, 2, Len(s)))
  ELSE s

\* The number of a label as the rule describes it: the digits after the
\* word "FRAME", "FR" or "SHOT" and its separators, if the label has one
NumberOfLabel(s) ==
  IF BeginsWith(s, "FRAME") THEN DigitRun(AfterSeparators(SubSeq(s, 6, Len(s))))
  ELSE IF BeginsWith(s, "FR") THEN DigitRun(AfterSeparators(SubSeq(s, 3, Len(s))))
  ELSE IF BeginsWith(s, "SHOT") THEN DigitRun(AfterSeparators(SubSeq(s, 5, Len(s))))
  ELSE DigitRun(s)

\* The spot has visible numbers throughout and kept its labels
VisibleAndKept ==
  /\ \A i \in 1..Len(SpotFrames) : SpotFrames[i].hasVisibleNumber
  /\ LabelsNow = LabelsBefore

UntaggedFramesStartShots ==
  ShotsMade =>
    /\ \A i \in 2..Len(SpotFrames) :
         (~SpotFrames[i].hasVisibleNumber /\ ~NewShotAt(i))
           => /\ SpotFrames[i].shotGroup # NoGroup
              /\ SpotFrames[i - 1].shotGroup # NoGroup
              /\ SpotFrames[i].shotGroup = SpotFrames[i - 1].shotGroup
    /\ (\A i \in 1..Len(SpotFrames) :
           ~SpotFrames[i].hasVisibleNumber /\ SpotFrames[i].shotGroup = NoGroup)
         => Len(SpotShotsNow) = Len(SpotFrames)

\* C14, reached: of three frames without visible numbers the first two
\* share a tag and a shot, and the third, untagged, has its own
TaggedPairAndUntaggedFrame ==
  /\ ShotsMade
  /\ Len(SpotFrames) = 3
  /\ \A i \in 1..3 : ~SpotFrames[i].hasVisibleNumber
  /\ SpotFrames[1].shotGroup = 0
  /\ SpotFrames[2].shotGroup = 0
  /\ SpotFrames[3].shotGroup = NoGroup
  /\ [k \in 1..Len(SpotShotsNow) |-> Len(SpotShotsNow[k].frames)] = <<2, 1>>

\* C15: the frame lists of the shots of a spot, one after the other in
\* output order, are exactly the labels of the spot's frames in merge
\* order: every frame is in one shot, no frame is dropped or repeated.
ShotsPartitionFrames ==
  ShotsMade =>
    /\ ShotFramesFrom(1) = LabelsNow
    /\ \A k \in 1..Len(SpotShotsNow) : Len(SpotShotsNow[k].frames) >= 1

\* C15, reached: three frames in two shots
ThreeFramesInTwoShots ==
  /\ ShotsMade
  /\ Len(SpotFrames) = 3
  /\ Len(SpotShotsNow) = 2

\* The oracle call of Pass 2 failed, or its reply holds no array that parses
FailedPass2(reply) == reply.kind = "reject" \/ reply.body.t # "arr"

\* C16: when the oracle call of Pass 2 throws or its reply holds no JSON
\* array that parses, analyzeGroupings returns without raising and without
\* tagging a frame, groupIntoShots gives one shot per frame, and the
\* request ends with the success response.
FailedPass2ChangesNothing ==
  /\ pc # "catch"
  /\ \A i \in 1..Len(responses) : responses[i].status = 200
  /\ pc = "pass2" =>
       \A k \in 1..Len(Pass2Replies) :
         FailedPass2(Pass2Replies[k]) =>
           LET after == ApplyPass2(SpotFrames, Pass2Replies[k])
           IN /\ after = SpotFrames
              /\ \A i \in 1..Len(after) : after[i].shotGroup = NoGroup
              /\ groupIntoShots(after).ok
              /\ Len(groupIntoShots(after).v) = Len(after)
  /\ (ShotsMade /\ oracleCalls = 2 /\ \A i \in 1..Len(SpotFrames) : SpotFrames[i].shotGroup = NoGroup)
       => Len(SpotShotsNow) = Len(SpotFrames)

\* C16, reached: Pass 2 was called for three frames without visible numbers,
\* no frame has a tag, and there are three shots
UntaggedAfterPass2 ==
  /\ ShotsMade
  /\ oracleCalls = 2
  /\ Len(SpotFrames) = 3
  /\ \A i \in 1..3 : ~SpotFrames[i].hasVisibleNumber /\ SpotFrames[i].shotGroup = NoGroup
  /\ Len(SpotShotsNow) = 3

\* The groups a reply of Pass 2 offers: none when the call or the reply failed
GroupsOffered(reply) == IF FailedPass2(reply) THEN <<>> ELSE reply.body.v

\* The place of frame p among the frames that have an image, which are the
\* ones submitted to Pass 2, in their order
SubmissionRank(p) == Cardinality({q \in 1..p : Truthy(SpotFrames[q].image)})

\* The tag of frame p when the groups name submitted images: the last group
\* that holds the frame's place among the submitted images
TagBySubmission(groups, p) ==
  LET naming == {g \in 1..Len(groups) :
                   /\ groups[g].t = "arr"
                   /\ \E m \in 1..Len(groups[g].v) : groups[g].v[m] = Num(SubmissionRank(p))}
  IN IF ~Truthy(SpotFrames[p].image) \/ naming = {} THEN NoGroup
     ELSE (CHOOSE g \in naming : \A h \in naming : h <= g) - 1

\* C17: the group Pass 2 gives to index k becomes the tag of the frame whose
\* image was the k-th submitted, also when frames without an image were not
\* submitted; an index beyond the submitted images tags no frame.
TagsFollowSubmissionOrder ==
  (pc = "shots" /\ oracleCalls = 2) =>
    \E k \in 1..Len(Pass2Replies) :
      \A p \in 1..Len(SpotFrames) :
        SpotFrames[p].shotGroup = TagBySubmission(GroupsOffered(Pass2Replies[k]), p)

\* C18: two consecutive frames with visible numbers whose labels both have
\* no number are never put into one shot: a new shot starts at the second.
NumberlessLabelsStartShots ==
  (ShotsMade /\ VisibleAndKept) =>
    \A i \in 2..Len(SpotFrames) :
      (NumberOfLabel(LabelsNow[i].v) = "" /\ NumberOfLabel(LabelsNow[i - 1].v) = "")
        => NewShotAt(i)

\* C19: for labels that begin with FR, FRAME or SHOT in any letter case,
\* followed by spaces or dots or not, the number that decides the shots is
\* the run of digits after the word: FRAME 1A and FRAME 1B share a shot,
\* FRAME 1 and FRAME 2 do not, and likewise for FR and SHOT.
WordLabelsGroupByNumber ==
  (ShotsMade /\ VisibleAndKept) =>
    \A i \in 2..Len(SpotFrames) :
      (BeginsWithLabelWord(LabelsNow[i].v) /\ BeginsWithLabelWord(LabelsNow[i - 1].v))
        => (NewShotAt(i) <=> NumberOfLabel(LabelsNow[i].v) # NumberOfLabel(LabelsNow[i - 1].v))

(***************************************************************************)
(* The batch loop of a longer document, started where pageImages is set    *)
(***************************************************************************)
\* The extractor's call is rejected, or answers with a page entry per page
BatchReplies(pages) ==
  << Reject(CHOOSE m \in OracleErrors : TRUE),
    Text(FALSE, FALSE, Arr([i \in 1..Len(pages) |-> NumberedPage(pages[i])])) >>

InitBatch ==
  /\ pc = "batch"
  /\ apiKey = TRUE
  /\ anthropic = FALSE
  /\ file = "pdf"
  /\ \E n \in 0..MaxBatchPages :
       /\ docPages = n
       /\ pageCount = n
       /\ loc = [p \in 1..n |-> Idle]
       /\ ext = [b \in 1..BatchCount(n) |-> Idle]
       /\ batchRes = [b \in 1..BatchCount(n) |-> Idle]
  /\ groupAt = 1
  /\ inversion = FALSE
  /\ allPageResults = <<>>
  /\ tempDir = "exists"
  /\ rmCalls = 0
  /\ retryCount = 0
  /\ attempts = 0
  /\ browsers = {}
  /\ browser = <<>>
  /\ images = <<>>
  /\ renderAt = 1
  /\ err = ""
  /\ allFrames = <<>>
  /\ spotGroups = <<>>
  /\ spotAt = 1
  /\ spots = <<>>
  /\ locatorCalls = 0
  /\ oracleCalls = 0
  /\ pass2Sent = <<>>
  /\ CacheAtStart
  /\ NoLocatorRun
  /\ responses = <<>>

NextBatch ==
  \/ StartGroup
  \/ \E p \in 1..pageCount : LocatorDone(p, Detected(<<PageImage(p, 1)>>))
  \/ \E b \in 1..BatchCount(pageCount) :
        \E k \in 1..Len(BatchReplies(Batches(pageCount)[b])) :
           ExtractDone(b, BatchReplies(Batches(pageCount)[b])[k])
  \/ \E b \in 1..BatchCount(pageCount) : BatchJoin(b)
  \/ GroupJoin
  \/ BatchesDone

SpecBatch == InitBatch /\ [][NextBatch]_vars

\* The batches whose calls have started and whose results are not merged
BatchesInProcess ==
  {b \in DOMAIN ext : ext[b] # Idle /\ batchRes[b].st # "done"}

\* C20: at most 2 batches are processed at any moment, so at most 2 calls
\* of the batched extraction and at most 8 locator calls are in flight; no
\* batch of a group starts before every batch of the groups before it is
\* complete.
TwoBatchesAtATime ==
  /\ Cardinality(BatchesInProcess) <= 2
  /\ Cardinality({b \in DOMAIN ext : ext[b] = Pending}) <= 2
  /\ Cardinality({p \in DOMAIN loc : loc[p] = Pending}) <= 8
  /\ \A b, c \in DOMAIN ext :
       ((c - 1) \div 2 < (b - 1) \div 2 /\ ext[b] # Idle) => batchRes[c].st = "done"

\* C20, reached: the third batch of nine pages is in flight after the first
\* two are complete
SecondGroupInFlight ==
  /\ pc = "wait"
  /\ pageCount = 9
  /\ ext[3] = Pending
  /\ loc[9] = Pending
  /\ batchRes[1].st = "done"
  /\ batchRes[2].st = "done"

(***************************************************************************)
(* The merge of a batch with the extractor's array (C21)                   *)
(***************************************************************************)
\* The positions of the extractor's array of batch b that hold an entry
\* with page number p
EntriesFor(b, p) ==
  {i \in 1..Len(ext[b].v.v) :
     /\ ext[b].v.v[i].t = "obj"
     /\ "pageNum" \in DOMAIN ext[b].v.v[i].v
     /\ ext[b].v.v[i].v.pageNum = Num(p)}

\* The images the locator reported for page p
ImagesLocated(p) == IF loc[p].v.t = "obj" THEN Len(loc[p].v.v.images.v) ELSE 0

\* Batch b has both its extractor's array and every locator result, and
\* its mapper has run
BatchMapped(b) ==
  /\ ext[b].st = "done"
  /\ \A i \in 1..Len(Batches(pageCount)[b]) : loc[Batches(pageCount)[b][i]].st = "done"
  /\ batchRes[b] # Idle

\* C21: for every batch and every parsed reply the orchestrator produces
\* exactly one page result per page of the batch, carrying that page's
\* number; a page without an entry of its number in the reply gets an empty
\* frame list, and its located images still produce frame records.
OnePageResultPerPage ==
  /\ \A b \in DOMAIN batchRes :
       BatchMapped(b) =>
         /\ batchRes[b].st = "done"
         /\ Len(batchRes[b].v) = Len(Batches(pageCount)[b])
         /\ \A i \in 1..Len(Batches(pageCount)[b]) :
              /\ batchRes[b].v[i].pageNum = Batches(pageCount)[b][i]
              /\ EntriesFor(b, Batches(pageCount)[b][i]) = {}
                   => batchRes[b].v[i].textData = Obj([frames |-> Arr(<<>>)])
  /\ pc = "group" =>
       \A p \in 1..pageCount :
          Cardinality({i \in 1..Len(allFrames) : allFrames[i].pageNum = p}) >= ImagesLocated(p)

(***************************************************************************)
(* The handler from the batch loop on, for a short document, with every    *)
(* way a locator run may end and with replies of every layout              *)
(***************************************************************************)
MaxReplyPages == 2

\* Replies of the oracle to the batched extraction call: rejected; a single
\* object (bare, fenced, without any array); arrays inside a fence with
\* prose around it; text without JSON; and plain arrays
ReplyShapes(pages) ==
  << Reject(CHOOSE m \in OracleErrors : TRUE),
    Text(FALSE, FALSE, NumberedPage(pages[1])),
    Text(TRUE, FALSE, NumberedPage(pages[1])),
    Text(FALSE, FALSE, Obj([pageNum |-> Num(pages[1]), spotName |-> Str("A")])),
    Text(TRUE, TRUE, NumberedPage(pages[1])),
    Text(TRUE, TRUE, Arr([i \in 1..Len(pages) |-> NumberedPage(pages[i])])),
    Text(FALSE, TRUE, Garbage),
    Text(TRUE, TRUE, Garbage),
    Text(FALSE, FALSE, Arr([i \in 1..Len(pages) |-> UnnumberedPage(pages[i])])) >>

InitReply ==
  /\ pc = "batch"
  /\ apiKey = TRUE
  /\ anthropic = FALSE
  /\ file = "pdf"
  /\ \E n \in 1..MaxReplyPages :
       /\ docPages = n
       /\ pageCount = n
       /\ loc = [p \in 1..n |-> Idle]
       /\ ext = [b \in 1..BatchCount(n) |-> Idle]
       /\ batchRes = [b \in 1..BatchCount(n) |-> Idle]
  /\ groupAt = 1
  /\ inversion = FALSE
  /\ allPageResults = <<>>
  /\ tempDir = "exists"
  /\ rmCalls = 0
  /\ retryCount = 0
  /\ attempts = 0
  /\ browsers = {}
  /\ browser = <<>>
  /\ images = <<>>
  /\ renderAt = 1
  /\ err = ""
  /\ allFrames = <<>>
  /\ spotGroups = <<>>
  /\ spotAt = 1
  /\ spots = <<>>
  /\ locatorCalls = 0
  /\ oracleCalls = 0
  /\ pass2Sent = <<>>
  /\ CacheAtStart
  /\ NoLocatorRun
  /\ responses = <<>>

\* detectRectangles(path) of page p resolves after these runs of the script
LocatorRuns(p, python3, python) == LocatorDone(p, detectRectangles(python3, python))

\* extractTextBatched(batch) of batch b settles on the k-th reply
ExtractReply(b, k) == ExtractDone(b, ReplyShapes(Batches(pageCount)[b])[k])

NextReply ==
  \/ StartGroup
  \/ \E p \in 1..pageCount : \E python3, python \in Runs(p) : LocatorRuns(p, python3, python)
  \/ \E b \in 1..BatchCount(pageCount) :
        \E k \in 1..Len(ReplyShapes(Batches(pageCount)[b])) : ExtractReply(b, k)
  \/ \E b \in 1..BatchCount(pageCount) : BatchJoin(b)
  \/ GroupJoin
  \/ BatchesDone
  \/ MergePages
  \/ GroupSpots
  \/ SpotBegin
  \/ \E k \in 1..Len(Pass2Replies) : Pass2Done(Pass2Replies[k])
  \/ SpotShots
  \/ Respond
  \/ HandlerCatch
  \/ \E removed \in BOOLEAN : Cleanup(removed)

SpecReply == InitReply /\ [][NextReply]_vars

\* The reply is the text of a single JSON object
SingleObject(reply) == reply.kind = "text" /\ reply.body.t = "obj"

\* C22: when the reply of the batched extraction call is a single JSON
\* object, inside a fence or bare, with or without a frames array,
\* extractTextBatched returns a one-element array holding that object.
SingleObjectWrapped ==
  [][\A b \in DOMAIN ext :
       \A k \in 1..Len(ReplyShapes(Batches(pageCount)[b])) :
          (SingleObject(ReplyShapes(Batches(pageCount)[b])[k]) /\ ExtractReply(b, k))
            => ext'[b] = Done(Arr(<<ReplyShapes(Batches(pageCount)[b])[k].body>>))]_vars

(***************************************************************************)
(* Properties of the spot loop: when Pass 2 calls, and in which order      *)
(***************************************************************************)
\* The frames of the spot that carry an image
WithImage == {i \in 1..Len(SpotFrames) : SpotFrames[i].image # Null}
\* The frames of the spot whose page shows no frame numbers
WithoutNumber == {i \in 1..Len(SpotFrames) : ~SpotFrames[i].hasVisibleNumber}

\* C23: the Pass-2 oracle call is made for a spot if and only if the spot
\* has at least 2 frames with images and at least one frame without a
\* visible number; a spot whose frames all have visible numbers gets no
\* call, also when duplicate labels triggered its renumbering.
Pass2IffImagesAndMissingNumber ==
  SpotChecked =>
    /\ oracleCalls = 2 <=> (Cardinality(WithImage) >= 2 /\ WithoutNumber # {})
    /\ WithoutNumber = {} => oracleCalls = 1

\* C23, reached: the call is in flight for a spot of three frames, two of
\* them with images, one of them from a page without numbers
Pass2CallInFlight ==
  /\ SpotChecked
  /\ pc = "pass2"
  /\ oracleCalls = 2
  /\ Len(SpotFrames) = 3
  /\ Cardinality(WithImage) = 2
  /\ Cardinality(WithoutNumber) = 1

\* The labels of the frames of the k-th spot
LabelsOfSpot(k) ==
  [i \in 1..Len(spotGroups[k].frames) |-> spotGroups[k].frames[i].frameNumber]

\* C24: for every spot, renumbering has finished before the Pass-2 call of
\* the spot is issued, and both have finished before groupIntoShots runs
\* for the spot: while the call is in flight the labels are "1".."n" and
\* the spot has no shots yet, and the shots of a spot are those of its
\* frames as they are at the end.
RenumberThenPass2ThenShots ==
  /\ pc = "pass2" =>
       /\ spotAt <= Len(spotGroups)
       /\ Len(spots) = spotAt - 1
       /\ LabelsOfSpot(spotAt) = Sequential(Len(spotGroups[spotAt].frames))
  /\ pc = "shots" => Len(spots) = spotAt - 1
  /\ pc \in {"spot", "pass2", "shots"} =>
       \A k \in 1..Len(spots) : groupIntoShots(spotGroups[k].frames) = Ok(spots[k].shots)

\* C24, reached: the first of two spots has its Pass-2 call in flight, its
\* repeated labels renumbered, and no shots yet
FirstSpotInPass2 ==
  /\ pc = "pass2"
  /\ Len(spotGroups) = 2
  /\ spotAt = 1
  /\ spots = <<>>
  /\ LabelsOfSpot(1) = Sequential(Len(spotGroups[1].frames))
  /\ \E i, j \in 1..Len(allFrames) :
       /\ i # j
       /\ allFrames[i].spotName = allFrames[j].spotName
       /\ allFrames[i].frameNumber = allFrames[j].frameNumber

(***************************************************************************)
(* Browsers of a pdfToImages call chain                                    *)
(***************************************************************************)
\* C25: during a pdfToImages call chain at most one browser it launched is
\* open at any moment; the browser of a failed attempt is closed before the
\* next attempt begins; a browser is closed only while it is open (the
\* variable of an invocation is set exactly while its browser is open), so
\* none is closed twice; and outside the chain no browser remains open.
AtMostOneBrowserOpen ==
  /\ Cardinality(browsers) <= 1
  /\ pc = "launch" => browsers = {}
  /\ \A k \in DOMAIN browser : browser[k] <=> k \in browsers
  /\ pc \notin {"launch", "render", "raster_catch", "raster_finally"} => browsers = {}

\* C25, reached: the third attempt renders with its own browser, the only
\* one open, after two attempts that had launched theirs
ThirdBrowserAlone ==
  /\ pc = "render"
  /\ attempts = 3
  /\ browser = <<FALSE, FALSE, TRUE>>
  /\ browsers = {3}

(***************************************************************************)
(* Progress of a request through its batch loop.  The handler's own steps  *)
(* run whenever they can, and an oracle call settles (the client library   *)
(* gives up after its default timeout); nothing in detectRectangles makes  *)
(* a locator run end.                                                      *)
(***************************************************************************)
\* A step of the batch loop other than the end of a locator run
BatchStep ==
  \/ StartGroup
  \/ \E b \in 1..BatchCount(pageCount) :
        \E k \in 1..Len(ReplyShapes(Batches(pageCount)[b])) : ExtractReply(b, k)
  \/ \E b \in 1..BatchCount(pageCount) : BatchJoin(b)
  \/ GroupJoin
  \/ BatchesDone

SpecLive == InitReply /\ [][NextReply]_vars /\ WF_vars(BatchStep)

\* C26: every external call is bounded by its own timeout, so the request
\* eventually produces a response, even if the locator subprocess of some
\* page never exits and never emits an error: in particular the request
\* eventually gets past its batch loop, to the merge or to the catch block,
\* which it must before it responds.
RequestEventuallyPastBatches == <>(pc \notin {"batch", "wait"})

(***************************************************************************)
(* A page whose locator fails (C27)                                        *)
(***************************************************************************)
\* The locator fails: non-zero exit or spawn error under both interpreters,
\* or output that is no valid JSON from the interpreter that ran the script
LocatorFails(python3, python) ==
  LET failed(run) == run.kind = "error" \/ run.code # 0
      garbled(run) == run.kind = "close" /\ run.code = 0 /\ run.stdout = Garbage
  IN \/ failed(python3) /\ failed(python)
     \/ garbled(python3)
     \/ failed(python3) /\ garbled(python)

\* The images of all shots of the response being built
RECURSIVE ShotImagesFrom(_)
ShotImagesFrom(k) ==
  IF k > Len(SpotShotsNow) THEN <<>> ELSE SpotShotsNow[k].images \o ShotImagesFrom(k + 1)

\* C27: when the locator of a page fails, detectRectangles resolves with
\* the empty detection result and the handler goes on; the page's extracted
\* text frames are merged, each without image, and are in the shots of the
\* response, which hold no image of that page.
LocatorFailureKeepsPage ==
  /\ [][\A p \in DOMAIN loc : \A python3, python \in Runs(p) :
          (LocatorFails(python3, python) /\ LocatorRuns(p, python3, python))
            => (loc'[p] = Done(EmptyDetected) /\ pc' = "wait")]_vars
  /\ [](ShotsMade =>
          \A p \in 1..pageCount :
             loc[p].v = EmptyDetected =>
               /\ Len(FramesOfPage(p)) = Len(ExtractedFrames(p))
               /\ \A j \in 1..Len(FramesOfPage(p)) :
                    /\ FramesOfPage(p)[j].image = Null
                    /\ FramesOfPage(p)[j].description = ExtractedFrames(p)[j].v.description
                    /\ FramesOfPage(p)[j].dialog = ExtractedFrames(p)[j].v.dialog
               /\ Len(ShotFramesFrom(1)) = Len(allFrames)
               /\ \A m \in 1..Len(ShotImagesFrom(1)) : ShotImagesFrom(1)[m] # PageImage(p, 1))

\* C27, reached: the response of a two-page document is ready; the locator
\* of page 1 failed, that of page 2 found an image, and both text frames of
\* page 1 are in the shots
FailedPageInResponse ==
  /\ ShotsMade
  /\ pageCount = 2
  /\ loc[1].v = EmptyDetected
  /\ loc[2].v = Detected(<<PageImage(2, 1)>>)
  /\ Len(FramesOfPage(1)) = 2
  /\ Len(ShotFramesFrom(1)) = 4
  /\ ShotImagesFrom(1) = <<PageImage(2, 1)>>

(***************************************************************************)
(* The batches of a document (C28)                                         *)
(***************************************************************************)
\* The places <<batch, position>> of the batches that hold page p
PlacesOf(p) ==
  {bj \in (1..Len(Batches(pageCount))) \X (1..4) :
     bj[2] <= Len(Batches(pageCount)[bj[1]]) /\ Batches(pageCount)[bj[1]][bj[2]] = p}

\* C28: for a document of N pages the batches partition the pages: every
\* page 1..N is in exactly one batch, each batch holds 1 to 4 pages with
\* consecutive numbers, the batches are in ascending page order, and their
\* number is ceil(N/4), the least k with 4k >= N (no batch for N = 0).
BatchesPartitionPages ==
  LET bs == Batches(pageCount)
  IN /\ 4 * Len(bs) >= pageCount
     /\ 4 * (Len(bs) - 1) < pageCount
     /\ pageCount = 0 => bs = <<>>
     /\ \A p \in 1..pageCount : Cardinality(PlacesOf(p)) = 1
     /\ \A b \in 1..Len(bs) :
          /\ Len(bs[b]) \in 1..4
          /\ \A j \in 1..Len(bs[b]) : bs[b][j] \in 1..pageCount
          /\ \A j \in 1..(Len(bs[b]) - 1) : bs[b][j + 1] = bs[b][j] + 1
          /\ b < Len(bs) => bs[b][Len(bs[b])] < bs[b + 1][1]

\* C28, reached: nine pages in the batches 1-4, 5-8 and 9, the calls of the
\* last batch started
NinePagesInThreeBatches ==
  /\ pageCount = 9
  /\ Batches(pageCount) = <<<<1, 2, 3, 4>>, <<5, 6, 7, 8>>, <<9>>>>
  /\ groupAt = 3
  /\ ext = <<ext[1], ext[2], Pending>>
  /\ loc[9] = Pending

(***************************************************************************)
(* Replies with prose, and replies without JSON (C29)                      *)
(***************************************************************************)
\* The reply is prose around a fenced block that holds a JSON array or object
ProseAroundFence(reply) ==
  reply.kind = "text" /\ reply.fence /\ reply.prose /\ reply.body.t \in {"arr", "obj"}

\* The reply holds no JSON that parses
NoJson(reply) == reply.kind = "text" /\ reply.body = Garbage

\* An empty result for each page of the batch
EmptyPerPage(pages) ==
  Arr([i \in 1..Len(pages) |->
        Obj([pageNum |-> Num(pages[i]), spotName |-> Null, frames |-> Arr(<<>>)])])

\* C29: when the reply is prose around a fenced JSON block, the extractor
\* returns the parsed content of the block, not the empty default, and its
\* frames reach the merged output; when the reply holds no JSON that
\* parses, the extractor does not throw and returns an empty result
\* (spotName null, no frames) for each page of the batch.
FenceInProseParsed ==
  /\ [][\A b \in DOMAIN ext :
          \A k \in 1..Len(ReplyShapes(Batches(pageCount)[b])) :
             LET reply == ReplyShapes(Batches(pageCount)[b])[k]
             IN ExtractReply(b, k) =>
                  /\ ProseAroundFence(reply) =>
                       /\ ext'[b] = Done(IF reply.body.t = "arr" THEN reply.body
                                         ELSE Arr(<<reply.body>>))
                       /\ ext'[b] # Done(EmptyPerPage(Batches(pageCount)[b]))
                  /\ NoJson(reply) =>
                       /\ ext'[b] = Done(EmptyPerPage(Batches(pageCount)[b]))
                       /\ pc' = "wait"]_vars
  /\ [](pc = "group" =>
          \A b \in DOMAIN ext :
             ext[b].v = Arr([i \in 1..Len(Batches(pageCount)[b]) |->
                               NumberedPage(Batches(pageCount)[b][i])])
               => \A i \in 1..Len(Batches(pageCount)[b]) :
                     LET p == Batches(pageCount)[b][i]
                     IN [j \in 1..2 |-> FramesOfPage(p)[j].frameNumber]
                          = <<Str(ToString(p) \o "A"), Str(ToString(p) \o "B")>>)

\* C29, reached: the frames of two pages, taken from a fenced block inside
\* prose, are merged
FencedFramesMerged ==
  /\ pc = "group"
  /\ pageCount = 2
  /\ ext[1].v = Arr(<<NumberedPage(1), NumberedPage(2)>>)
  /\ Len(allFrames) = 4
  /\ allFrames[3].frameNumber = Str("2A")

(***************************************************************************)
(* The numbers of the shots (C30)                                          *)
(***************************************************************************)
\* C30: the shots of every spot are numbered "1", "2", ..., "k" in output
\* order, without gap or repeat and starting again at "1" in each spot;
\* every shot holds at least one frame; no frames give no shots.
ShotsNumberedFromOne ==
  /\ \A s \in 1..Len(spots) :
       \A k \in 1..Len(spots[s].shots) :
          /\ spots[s].shots[k].shotNumber = ToString(k)
          /\ Len(spots[s].shots[k].frames) >= 1
  /\ groupIntoShots(<<>>) = Ok(<<>>)

\* C30, reached: two spots, the first with several shots, the second
\* starting again at "1"
TwoSpotsNumbered ==
  /\ pc = "spot"
  /\ Len(spots) = 2
  /\ Len(spots[1].shots) >= 2
  /\ spots[1].shots[2].shotNumber = "2"
  /\ spots[2].shots[1].shotNumber = "1"

(***************************************************************************)
(* What Pass 2 does to the frames of a spot (C31, C32)                     *)
(***************************************************************************)
\* Frame f with the tag of frame g
Retagged(f, g) == [f EXCEPT !.shotGroup = g.shotGroup]

\* C31: analyzeGroupings never adds, removes or reorders the frames of a
\* spot and changes no field of a frame other than shotGroup: when its call
\* settles (with groups applied, in part or not at all) the frames are the
\* same up to their tags, and when it skips the call even the tags stay.
Pass2OnlyTags ==
  [][/\ pc = "pass2" =>
          /\ Len(spotGroups') = Len(spotGroups)
          /\ \A s \in 1..Len(spotGroups) :
               /\ spotGroups'[s].name = spotGroups[s].name
               /\ Len(spotGroups'[s].frames) = Len(spotGroups[s].frames)
               /\ \A i \in 1..Len(spotGroups[s].frames) :
                    Retagged(spotGroups'[s].frames[i], spotGroups[s].frames[i])
                      = spotGroups[s].frames[i]
               /\ s # spotAt => spotGroups'[s] = spotGroups[s]
     /\ (pc = "spot" /\ pc' = "shots") =>
          /\ Len(spotGroups'[spotAt].frames) = Len(spotGroups[spotAt].frames)
          /\ \A i \in 1..Len(spotGroups[spotAt].frames) :
               [spotGroups'[spotAt].frames[i]
                  EXCEPT !.frameNumber = spotGroups[spotAt].frames[i].frameNumber]
                 = spotGroups[spotAt].frames[i]]_vars

\* C31, reached: the oracle's groups were applied up to an entry that is no
\* array: frame 2 is tagged, frames 1 and 3 are not
Pass2FailedPartWay ==
  /\ SpotChecked
  /\ pc = "shots"
  /\ oracleCalls = 2
  /\ Len(SpotFrames) = 3
  /\ SpotFrames[1].shotGroup = NoGroup
  /\ SpotFrames[2].shotGroup = 0
  /\ SpotFrames[3].shotGroup = NoGroup

\* The positions of the frames of the spot that have an image
ImagePlaces == {i \in 1..Len(SpotFrames) : Truthy(SpotFrames[i].image)}

\* The position of the k-th frame of the spot that has an image
ImagePlace(k) ==
  CHOOSE i \in ImagePlaces : Cardinality({j \in ImagePlaces : j <= i}) = k

\* C32: the oracle call of Pass 2 carries at most 24 image blocks, those of
\* the first 24 frames of the spot that have an image, in frame order, and
\* a spot makes one Pass 2 call at most, however many frames it has.
Pass2SendsFirst24 ==
  /\ oracleCalls - 1 <= (IF pc = "spot" THEN spotAt - 1 ELSE spotAt)
  /\ pc = "pass2" =>
       /\ Len(pass2Sent) <= 24
       /\ Len(pass2Sent) = Min(Cardinality(ImagePlaces), 24)
       /\ \A k \in 1..Len(pass2Sent) :
            /\ pass2Sent[k].type = "image"
            /\ pass2Sent[k].thumbOf = SpotFrames[ImagePlace(k)].image

\* Pass 2 of a spot of 26 frames, 25 of them with an image, the first
\* without: the call carries the images of frames 2 to 25
LongSpotInPass2 ==
  /\ pc = "pass2"
  /\ oracleCalls = 2
  /\ Len(SpotFrames) = 26
  /\ Cardinality(ImagePlaces) = 25
  /\ Len(pass2Sent) = 24
  /\ pass2Sent[1].thumbOf = SpotFrames[2].image
  /\ pass2Sent[24].thumbOf = SpotFrames[25].image

(***************************************************************************)
(* POST /api/analyze-pdf-pages: the row counts of the pages of a schedule, *)
(* cached by content hash, and the timer that sweeps the cache             *)
(***************************************************************************)
\* An entry that a hit may still be served from at its 24th hour exactly
FreshUpToTtl(entry, at) == at - entry.timestamp <= CACHE_TTL_MS

\* Date.now() - cached.timestamp < CACHE_TTL_MS
Fresh(entry, at) == at - entry.timestamp < CACHE_TTL_MS

\* now - value.timestamp > CACHE_TTL_MS
Expired(entry, at) == at - entry.timestamp > CACHE_TTL_MS

\* Content hashes of requests; "" is a request without contentHash
Hashes == {"h1", "h2"}

\* The instants at which something happens: the start, the millisecond
\* before the end of the first day, its end, and the milliseconds after it
Instants == {0} \cup {CACHE_TTL_MS + e : e \in -1..MaxLate}

\* An entry {"page": p, "rowCount": n} of the oracle's answer
RowCount(p, n) == Obj([page |-> Num(p), rowCount |-> Num(n)])

\* Replies of the oracle to the row count question
AnalyzeReplies ==
  <<Reject("529 overloaded_error"),
    Text(FALSE, FALSE, Garbage),
    Text(TRUE, TRUE, Obj([pages |-> Arr(<<RowCount(1, 7), RowCount(2, 4)>>)])),
    Text(FALSE, FALSE, Obj([rows |-> Num(11)])),
    Text(FALSE, TRUE, Obj([rows |-> Num(11)])),
    Text(FALSE, FALSE, Obj([pages |-> Num(2)]))>>

\* cleanText, jsonMatch and JSON.parse: the fences are removed, the slice
\* from the first "{" to the last "}" is taken when it holds "pages"
ParseAnalysis(text) ==
  IF text.body.t = "obj" /\ "pages" \in DOMAIN text.body.v THEN JsonParse(text.body)
  ELSE IF text.prose THEN Throw("Unexpected token")
  ELSE JsonParse(text.body)

\* currentRow before page i: one more than the rows of the pages before it
RECURSIVE CurrentRow(_, _)
CurrentRow(pages, i) ==
  IF i = 1 THEN 1 ELSE CurrentRow(pages, i - 1) + pages[i - 1].v.rowCount.v

\* pageRanges: the rows of each page, from its count and the counts before it
PageRanges(pages) ==
  [i \in 1..Len(pages) |->
     [page |-> pages[i].v.page.v,
      startRow |-> CurrentRow(pages, i),
      endRow |-> CurrentRow(pages, i) + pages[i].v.rowCount.v - 1,
      rowCount |-> pages[i].v.rowCount.v]]

\* The response of a request that went to the oracle and parsed its answer
AnalysisBody(pages) ==
  [success |-> TRUE,
   pages |-> PageRanges(pages),
   totalRows |-> CurrentRow(pages, Len(pages) + 1) - 1,
   hasIssues |-> Len(pages) > 0]

\* A hit that reports issues whatever the entry holds
CachedBodyWithIssues(cached) ==
  [success |-> TRUE, pages |-> cached.pages, totalRows |-> cached.totalRows,
   hasIssues |-> TRUE, cached |-> TRUE]

\* The response of a cache hit
CachedBody(cached) ==
  [success |-> TRUE, pages |-> cached.pages, totalRows |-> cached.totalRows,
   hasIssues |-> Len(cached.pages) > 0, cached |-> TRUE]

Answered(contentHash, status, body) ==
  [for |-> contentHash, at |-> now, status |-> status, body |-> body]

\* The handler up to its await: the cache check, the two refusals and the
\* start of the oracle call
AnalyzeRequest(contentHash, imagesOk) ==
  LET hit == /\ contentHash # ""
             /\ contentHash \in DOMAIN analysisCache
             /\ Fresh(analysisCache[contentHash], now)
      client == anthropic \/ apiKey
  IN /\ pc = "idle"
     /\ (~hit /\ imagesOk /\ client) => Len(analyzing) < MaxAnalyzing
     /\ IF hit
          THEN /\ answer' = Answered(contentHash, 200, CachedBody(analysisCache[contentHash]))
               /\ UNCHANGED <<analyzing, anthropic>>
        ELSE IF ~imagesOk
          THEN /\ answer' = Answered(contentHash, 400, ErrorBody("Missing or invalid images array"))
               /\ UNCHANGED <<analyzing, anthropic>>
        ELSE IF ~client
          THEN /\ answer' = Answered(contentHash, 500, ErrorBody("ANTHROPIC_API_KEY not set"))
               /\ UNCHANGED <<analyzing, anthropic>>
        ELSE /\ analyzing' = Append(analyzing, contentHash)
             /\ anthropic' = TRUE
             /\ answer' = answer
     /\ UNCHANGED <<pc, apiKey, file, docPages, dirVars, rasterVars, err, pageCount, batchVars,
                    spotVars, locatorCalls, oracleCalls, pass2Sent, analysisCache, now, nextSweep,
                    storedBy, procVars, responses>>

\* The handler after its await, for the k-th request in flight: the parse,
\* the row ranges, analysisCache.set and the response
AnalyzeDone(k, reply) ==
  LET contentHash == analyzing[k]
      parsed == ParseAnalysis(reply)
      pages == Or(Prop(parsed.v, "pages"), Arr(<<>>))
  IN /\ pc = "idle"
     /\ k \in 1..Len(analyzing)
     /\ analyzing' = [i \in 1..(Len(analyzing) - 1) |->
                        IF i < k THEN analyzing[i] ELSE analyzing[i + 1]]
     /\ IF reply.kind = "reject"
          THEN /\ answer' = Answered(contentHash, 500,
                                     [error |-> "Analysis failed", message |-> reply.error])
               /\ UNCHANGED <<analysisCache, storedBy>>
        ELSE IF ~parsed.ok
          THEN /\ answer' = Answered(contentHash, 200,
                                     [success |-> TRUE, pages |-> <<>>, hasIssues |-> FALSE])
               /\ UNCHANGED <<analysisCache, storedBy>>
        ELSE IF pages.t # "arr"
          THEN /\ answer' = Answered(contentHash, 500,
                                     [error |-> "Analysis failed",
                                      message |-> "pages.map is not a function"])
               /\ UNCHANGED <<analysisCache, storedBy>>
        ELSE /\ answer' = Answered(contentHash, 200, AnalysisBody(pages.v))
             /\ IF contentHash # ""
                  THEN /\ analysisCache' =
                            [h \in DOMAIN analysisCache \cup {contentHash} |->
                               IF h = contentHash
                                 THEN [pages |-> PageRanges(pages.v),
                                       totalRows |-> CurrentRow(pages.v, Len(pages.v) + 1) - 1,
                                       timestamp |-> now]
                               ELSE analysisCache[h]]
                       /\ storedBy' =
                            [h \in DOMAIN storedBy \cup {contentHash} |->
                               IF h = contentHash THEN AnalysisBody(pages.v) ELSE storedBy[h]]
                ELSE UNCHANGED <<analysisCache, storedBy>>
     /\ UNCHANGED <<pc, apiKey, file, docPages, dirVars, rasterVars, err, pageCount, batchVars,
                    spotVars, callVars, now, nextSweep, procVars, responses>>

\* The timer of setInterval fires, at its due time or later
cleanExpiredCache ==
  LET kept == {h \in DOMAIN analysisCache : ~Expired(analysisCache[h], now)}
  IN /\ pc = "idle"
     /\ now >= nextSweep
     /\ analysisCache' = [h \in kept |-> analysisCache[h]]
     /\ storedBy' = [h \in kept |-> storedBy[h]]
     /\ nextSweep' = now + SWEEP_EVERY_MS
     /\ UNCHANGED <<pc, apiKey, file, docPages, dirVars, rasterVars, err, pageCount, batchVars,
                    spotVars, callVars, now, analyzing, answer, procVars, responses>>

\* Time passes
ClockMoves(t) ==
  /\ pc = "idle"
  /\ t > now
  /\ now' = t
  /\ UNCHANGED <<pc, apiKey, file, docPages, dirVars, rasterVars, err, pageCount, batchVars,
                 spotVars, callVars, analysisCache, nextSweep, analyzing, answer, storedBy,
                 procVars, responses>>

NextAnalyze ==
  \/ \E contentHash \in Hashes \cup {""}, imagesOk \in BOOLEAN :
       AnalyzeRequest(contentHash, imagesOk)
  \/ \E k \in 1..MaxAnalyzing, r \in 1..Len(AnalyzeReplies) : AnalyzeDone(k, AnalyzeReplies[r])
  \/ cleanExpiredCache
  \/ \E t \in Instants : ClockMoves(t)

SpecAnalyze == Init /\ [][NextAnalyze]_vars

(***************************************************************************)
(* Properties of the cache of /api/analyze-pdf-pages                       *)
(***************************************************************************)
\* A response is sent by this step, and it is a cache hit
HitAnswered == answer' # answer /\ "cached" \in DOMAIN answer'.body

\* The age at time `at` of the entry cached for h
Age(h, at) == at - analysisCache[h].timestamp

\* C33: a cache hit is answered only from an entry younger than 24 hours,
\* whatever requests and sweeps came before it; a sweep deletes every entry
\* older than 24 hours and keeps every entry younger than 24 hours.
HitsAreFreshAndSweepsExact ==
  [][/\ HitAnswered =>
          /\ answer'.for \in DOMAIN analysisCache
          /\ Age(answer'.for, now) < 24 * 60 * 60 * 1000
     /\ nextSweep' # nextSweep =>
          \A h \in DOMAIN analysisCache :
             /\ Age(h, now) > 24 * 60 * 60 * 1000 => h \notin DOMAIN analysisCache'
             /\ Age(h, now) < 24 * 60 * 60 * 1000 =>
                  /\ h \in DOMAIN analysisCache'
                  /\ analysisCache'[h] = analysisCache[h]]_vars

\* A hit served one millisecond before the entry turns 24 hours old, after
\* a sweep at that instant has kept the entry
HitInLastMillisecond ==
  /\ "cached" \in DOMAIN answer.body
  /\ answer.at = now
  /\ nextSweep = now + SWEEP_EVERY_MS
  /\ answer.for \in DOMAIN analysisCache
  /\ Age(answer.for, now) = CACHE_TTL_MS - 1

\* C38: a cache hit for content hash h starts no oracle call and answers
\* with the pages, totalRows and hasIssues of the response of the request
\* that stored the entry for h.
HitRepeatsStoredResponse ==
  [][HitAnswered =>
       /\ analyzing' = analyzing
       /\ answer'.for \in DOMAIN storedBy
       /\ answer'.body.pages = storedBy[answer'.for].pages
       /\ answer'.body.totalRows = storedBy[answer'.for].totalRows
       /\ answer'.body.hasIssues = storedBy[answer'.for].hasIssues]_vars

\* A hit on an entry without pages while another request for the same hash
\* is with the oracle
EmptyHitWhileAnalyzing ==
  /\ "cached" \in DOMAIN answer.body
  /\ answer.body.pages = <<>>
  /\ answer.body.totalRows = 0
  /\ ~answer.body.hasIssues
  /\ analyzing = <<answer.for>>

\* C34: in every returned shot, descriptions and dialogs have one entry per
\* frame of the shot, entry i being the text of the shot's i-th frame, also
\* for a frame whose description or dialog is empty.
ShotTextsAligned ==
  ShotsMade =>
    \A k \in 1..Len(SpotShotsNow) :
       LET shot == SpotShotsNow[k]
       IN /\ Len(shot.descriptions) = Len(shot.frames)
          /\ Len(shot.dialogs) = Len(shot.frames)
          /\ \A i \in 1..Len(shot.frames) :
               /\ shot.descriptions[i] = SpotFrames[FirstFrameOf(k) + i - 1].description
               /\ shot.dialogs[i] = SpotFrames[FirstFrameOf(k) + i - 1].dialog

\* The spot a frame is filed under
SpotKeyOf(f) == PropertyKey(Or(f.spotName, Str("Untitled")))

\* The spot names of the first n frames of allFrames, each once, in the
\* order in which they first appear
RECURSIVE NamesInPageOrder(_)
NamesInPageOrder(n) ==
  IF n = 0 THEN <<>>
  ELSE LET before == NamesInPageOrder(n - 1)
           name == SpotKeyOf(allFrames[n])
       IN IF \E i \in 1..Len(before) : before[i] = name THEN before
          ELSE Append(before, name)

\* C35: the spots are handled, and so appear in the response, in the order
\* in which their names first appear in page order, also for names that
\* consist of digits only.
SpotsInPageOrder ==
  pc = "spot" =>
    [g \in 1..Len(spotGroups) |-> spotGroups[g].name] = NamesInPageOrder(Len(allFrames))

(***************************************************************************)
(* One detectRectangles call, subprocess by subprocess: the events of each *)
(* subprocess are delivered one at a time, in any order across the         *)
(* subprocesses                                                            *)
(***************************************************************************)
\* spawn(cmd, ...): a subprocess none of whose events was delivered yet;
\* exit holds the code its 'close' event was delivered with
Spawned(cmd) == [cmd |-> cmd, error |-> FALSE, exit |-> <<>>]

\* How a subprocess that could not be started is closed: a negative code, no output
ClosedUnstarted == Closed(-2, Garbage)

\* resolve(v): the first call settles the promise, later calls change nothing
Resolved(v) == IF settled = <<>> THEN <<v>> ELSE settled

\* The part the two handlers share: python3 falls back to python, python
\* resolves with the empty result
GiveUp(i, delivered) ==
  IF procs[i].cmd = "python3"
    THEN procs' = Append(delivered, Spawned("python")) /\ settled' = settled
  ELSE procs' = delivered /\ settled' = Resolved(EmptyDetected)

\* proc.on('error'): the subprocess could not be started
ProcError(i) ==
  /\ pc = "idle"
  /\ i \in 1..Len(procs)
  /\ ~procs[i].error /\ procs[i].exit = <<>>
  /\ GiveUp(i, [procs EXCEPT ![i].error = TRUE])
  /\ UNCHANGED <<pc, apiKey, file, docPages, dirVars, rasterVars, err, pageCount, batchVars,
                 spotVars, callVars, cacheVars, responses>>

\* proc.on('close'): the subprocess ended as `run` says; one that could not
\* be started is closed after its 'error', with a code that is not 0
ProcClose(i, run) ==
  /\ pc = "idle"
  /\ i \in 1..Len(procs)
  /\ procs[i].exit = <<>>
  /\ run.kind = "close"
  /\ procs[i].error <=> run = ClosedUnstarted
  /\ IF run.code # 0
       THEN GiveUp(i, [procs EXCEPT ![i].exit = <<run.code>>])
     ELSE /\ procs' = [procs EXCEPT ![i].exit = <<run.code>>]
          /\ settled' = Resolved(ParsedOutput(run.stdout))
  /\ UNCHANGED <<pc, apiKey, file, docPages, dirVars, rasterVars, err, pageCount, batchVars,
                 spotVars, callVars, cacheVars, responses>>

\* detectRectangles(imagePath) has called tryPython('python3')
InitLocator ==
  /\ pc = "idle"
  /\ apiKey \in BOOLEAN
  /\ anthropic = FALSE
  /\ file = "none"
  /\ docPages = 0
  /\ tempDir = "none"
  /\ rmCalls = 0
  /\ retryCount = 0
  /\ attempts = 0
  /\ browsers = {}
  /\ browser = <<>>
  /\ images = <<>>
  /\ renderAt = 1
  /\ err = ""
  /\ pageCount = 0
  /\ groupAt = 1
  /\ loc = <<>>
  /\ ext = <<>>
  /\ batchRes = <<>>
  /\ inversion = FALSE
  /\ allPageResults = <<>>
  /\ allFrames = <<>>
  /\ spotGroups = <<>>
  /\ spotAt = 1
  /\ spots = <<>>
  /\ locatorCalls = 1
  /\ oracleCalls = 0
  /\ pass2Sent = <<>>
  /\ CacheAtStart
  /\ procs = <<Spawned("python3")>>
  /\ settled = <<>>
  /\ responses = <<>>

NextLocator ==
  \/ \E i \in 1..3 : ProcError(i)
  \/ \E i \in 1..3 : \E run \in Runs(1) \cup Runs(2) \cup {ClosedUnstarted} : ProcClose(i, run)

SpecLocator == InitLocator /\ [][NextLocator]_vars

\* C36: one detectRectangles call starts at most two subprocesses, python3
\* and then at most one python, also when both 'error' and 'close' are
\* delivered for the first subprocess, and its promise takes the value of
\* exactly one outcome.
FallbackTriedOnce ==
  /\ Len(procs) <= 2
  /\ Cardinality({i \in 1..Len(procs) : procs[i].cmd = "python"}) <= 1
  /\ Len(settled) <= 1

\* C37: when pdfToImages returns after one or more failed attempts, its
\* list holds one image per page of the document, in page order 1..n: the
\* pages rendered by the failed attempts are neither repeated nor missing.
RetriedImagesOncePerPage ==
  (pc = "raster_finally" /\ attempts > 1) =>
    images = [i \in 1..docPages |-> i]

\* The third attempt returns the pages of a document of three pages
ThirdAttemptReturnsPages ==
  /\ pc = "raster_finally"
  /\ attempts = 3
  /\ retryCount = 2
  /\ docPages = 3
  /\ Len(images) = 3

\* Every frame of the spot came with a visible number, and one label occurs
\* on two different pages
RepeatedAcrossPagesOnly ==
  /\ \A i \in 1..Len(allFrames) : allFrames[i].hasVisibleNumber
  /\ \E i, j \in 1..Len(allFrames) :
       /\ allFrames[i].frameNumber = allFrames[j].frameNumber
       /\ allFrames[i].pageNum # allFrames[j].pageNum

\* C39: in a spot whose frames all have visible numbers and that is
\* renumbered because a label occurs on different pages, no Pass 2 call is
\* made and every frame becomes a shot of its own, whatever grouping the
\* original labels implied.
RepeatedLabelsGiveOneShotPerFrame ==
  RepeatedAcrossPagesOnly =>
    /\ pc # "pass2"
    /\ oracleCalls = 1
    /\ ShotsMade =>
         /\ Len(SpotShotsNow) = Len(allFrames)
         /\ \A k \in 1..Len(SpotShotsNow) : SpotShotsNow[k].frames = <<Str(ToString(k))>>

\* Three frames labelled "1", two on page 1 and one on page 2, all with
\* visible numbers: three shots, where the labels implied one
SameLabelThreeShots ==
  /\ ShotsMade
  /\ RepeatedAcrossPagesOnly
  /\ LabelsBefore = <<Str("1"), Str("1"), Str("1")>>
  /\ Len(SpotShotsNow) = 3

=============================================================================
